---- MODULE Spec2Model ----
(***************************************************************************)
(* Router-side DDL coordination of cluster_ddl.cpp: createDatabase,        *)
(* createCollection and createLegacyUnshardedCollection, run by operations *)
(* of one router against                                                   *)
(* the config server (the authority), the shard registry, the catalog      *)
(* cache and the data shards.                                              *)
(***************************************************************************)
EXTENDS Integers, Sequences, FiniteSets, TLC

\* ------------------------------------------------------------------ bounds
NumShards == 2          \* data shard identifiers 1..NumShards
MaxVersion == 2         \* highest DatabaseVersion the authority hands out
MaxAttempts == 2        \* attempts of one command under the Idempotent policy

\* ------------------------------------------------------- program constants
ConfigShardId == 0      \* the config shard (getConfigShard)
NoShard == -1           \* boost::none for a shard id
NoVersion == -1         \* no DatabaseVersion present (the config database)

Callers == {"a", "b"}
DbNames == {"config", "app"}
ShardIds == 1..NumShards

VARIABLES
    liveShards,     \* shard registry: the live data shards
    authDb,         \* config server: per database existence, primary, version
    cache,          \* catalog cache: per database snapshot and validity
    shardKnows,     \* whether the shards' filtering metadata is refreshed
    call,           \* per operation: inputs, program position, locals, history
    shell,          \* mongo shell: routing connection, nodes, one runCommand call
    script          \* kill_transaction_cursors.js: position, session, cursors

vars == <<liveShards, authDb, cache, shardKnows, call, shell, script>>
ddlVars == <<liveShards, authDb, cache, shardKnows, call>>
jsVars == <<shell, script>>

\* ------------------------------------------------------------- helpers
Ev(ev, shard, ver, wc, policy, sv) ==
    [ev |-> ev, shard |-> shard, ver |-> ver, wc |-> wc, policy |-> policy, sv |-> sv]

NoEnvelope == Ev("none", NoShard, NoVersion, "none", "none", "none")

NoInfo == [status |-> "none", primary |-> NoShard, version |-> NoVersion]

NoReply == [cmd |-> "none", wc |-> "none", ver |-> NoVersion]

IdleCall ==
    [op |-> "none", db |-> "config", sharded |-> FALSE, wcClient |-> FALSE,
     wc |-> "default", inTxn |-> FALSE, suggested |-> NoShard,
     pc |-> "idle", dbInfo |-> NoInfo, attempts |-> 0, staleRetries |-> 0,
     req |-> NoEnvelope, reply |-> NoReply, result |-> "none", enum |-> <<>>,
     hist |-> <<>>]

Perms(S) ==
    {f \in [1..Cardinality(S) -> S] : \A i, j \in 1..Cardinality(S) : f[i] = f[j] => i = j}

CountEv(h, name) == Cardinality({i \in 1..Len(h) : h[i].ev = name})

IndexOf(h, name) ==
    IF \E i \in 1..Len(h) : h[i].ev = name
    THEN CHOOSE i \in 1..Len(h) : h[i].ev = name /\ \A j \in 1..(i - 1) : h[j].ev # name
    ELSE 0

\* ------------------------------------------------ catalog cache (lookup)
\* CatalogCache::getDatabase: a valid entry is returned as is; otherwise the
\* entry is refetched from the config server.
getDatabase(db) ==
    IF cache[db].valid
    THEN [status |-> "OK", primary |-> cache[db].primary, version |-> cache[db].version]
    ELSE IF authDb[db].exists
         THEN [status |-> "OK", primary |-> authDb[db].primary, version |-> authDb[db].version]
         ELSE [status |-> "NamespaceNotFound", primary |-> NoShard, version |-> NoVersion]

CacheAfterGet(ch, db) ==
    IF ~ch[db].valid /\ authDb[db].exists
    THEN [ch EXCEPT ![db] = [valid |-> TRUE, primary |-> authDb[db].primary,
                             version |-> authDb[db].version]]
    ELSE ch

\* CatalogCache::onStaleDatabaseVersion: the entry is dropped unless the cache
\* already holds a newer version than the one reported.
onStaleDatabaseVersion(ch, db, v) ==
    IF ch[db].valid /\ ch[db].version > v
    THEN ch
    ELSE [ch EXCEPT ![db] = [valid |-> FALSE, primary |-> NoShard, version |-> NoVersion]]

\* ------------------------------------------------------------ createDatabase
\* The statuses createDatabase asserts after the request was issued, in the
\* order of the source: transport status of runCommandWithFixedRetryAttempts
\* (line 130), unyieldNoThrow (137), writeConcernStatus (138), commandStatus
\* (139).  The result is the first one that is not OK.
\* Variant of createDatabaseFirstError without the assertion of line 139.
createDatabaseFirstErrorNoCmdCheck(swStatus, unyieldStatus, wcStatus, cmdStatus) ==
    IF swStatus # "OK" THEN swStatus
    ELSE IF unyieldStatus # "OK" THEN unyieldStatus
    ELSE IF wcStatus # "OK" THEN wcStatus
    ELSE "OK"

\* Variant of createDatabaseFirstError that lets NamespaceExists pass line 139.
createDatabaseFirstErrorSwallowExists(swStatus, unyieldStatus, wcStatus, cmdStatus) ==
    IF swStatus # "OK" THEN swStatus
    ELSE IF unyieldStatus # "OK" THEN unyieldStatus
    ELSE IF wcStatus # "OK" THEN wcStatus
    ELSE IF cmdStatus = "NamespaceExists" THEN "OK"
    ELSE cmdStatus

createDatabaseFirstError(swStatus, unyieldStatus, wcStatus, cmdStatus) ==
    IF swStatus # "OK" THEN swStatus
    ELSE IF unyieldStatus # "OK" THEN unyieldStatus
    ELSE IF wcStatus # "OK" THEN wcStatus
    ELSE cmdStatus

\* unyieldNoThrow is reached only when line 130 did not throw.
createDatabaseUnyields(swStatus) == swStatus = "OK"

\* The request of lines 116-135.
\* The target is the config shard, the write concern is that of
\* appendMajorityWriteConcern; sv holds the primary shard id when one is
\* suggested.
createDatabaseRequest(suggestedPrimaryId) ==
    Ev("sendCfg", ConfigShardId, NoVersion, "majority", "Idempotent",
       IF suggestedPrimaryId = NoShard THEN "none" ELSE ToString(suggestedPrimaryId))

\* uassert / normal return: the operation ends with this status; no request is
\* outstanding any more.
Finish(rec, status) ==
    [rec EXCEPT !.pc = "done", !.result = status, !.attempts = 0]

\* Variant of createDatabaseYieldAndSend that sends before it yields.
createDatabaseSendAndYield(rec) ==
    [rec EXCEPT !.pc = "cfgWait", !.attempts = 1,
                !.hist = @ \o <<createDatabaseRequest(rec.suggested),
                                Ev("yield", NoShard, NoVersion, "none", "none", "none")>>]

\* Lines 126-135: yield the session, then send the request to the config shard.
createDatabaseYieldAndSend(rec) ==
    [rec EXCEPT !.pc = "cfgWait", !.attempts = 1,
                !.hist = @ \o <<Ev("yield", NoShard, NoVersion, "none", "none", "none"),
                                createDatabaseRequest(rec.suggested)>>]

\* Variant of createDatabaseResume that reports the version of the stale
\* dbInfo of the first lookup instead of the version of the response.
createDatabaseResumeOldVersion(rec, swStatus, u, reply) ==
    LET err == createDatabaseFirstError(swStatus, u, reply.wc, reply.cmd)
        h1 == IF createDatabaseUnyields(swStatus)
              THEN Append(rec.hist, Ev("unyield", NoShard, NoVersion, "none", "none", u))
              ELSE rec.hist
    IN IF err # "OK"
       THEN Finish([rec EXCEPT !.hist = h1, !.reply = reply], err)
       ELSE [rec EXCEPT !.pc = "requery", !.reply = reply, !.attempts = 0,
                        !.hist = Append(h1, Ev("invalDb", NoShard, rec.hist[1].ver,
                                               "none", "none", "none"))]

\* Variant of createDatabaseResume that unyields only once the response has
\* passed the assertions on its write-concern and command status.
createDatabaseResumeUnyieldsLast(rec, swStatus, u, reply) ==
    LET err == createDatabaseFirstError(swStatus, "OK", reply.wc, reply.cmd)
        h1 == IF createDatabaseUnyields(swStatus) /\ err = "OK"
              THEN Append(rec.hist, Ev("unyield", NoShard, NoVersion, "none", "none", u))
              ELSE rec.hist
    IN IF err # "OK"
       THEN Finish([rec EXCEPT !.hist = h1, !.reply = reply], err)
       ELSE IF u # "OK"
       THEN Finish([rec EXCEPT !.hist = h1, !.reply = reply], u)
       ELSE [rec EXCEPT !.pc = "requery", !.reply = reply, !.attempts = 0,
                        !.hist = Append(h1, Ev("invalDb", NoShard, reply.ver,
                                               "none", "none", "none"))]

\* Lines 130-141 once runCommandWithFixedRetryAttempts has returned swStatus
\* and, when it is OK, the response `reply`; u is what unyieldNoThrow returns.
createDatabaseResume(rec, swStatus, u, reply) ==
    LET err == createDatabaseFirstError(swStatus, u, reply.wc, reply.cmd)
        h1 == IF createDatabaseUnyields(swStatus)
              THEN Append(rec.hist, Ev("unyield", NoShard, NoVersion, "none", "none", u))
              ELSE rec.hist
    IN IF err # "OK"
       THEN Finish([rec EXCEPT !.hist = h1, !.reply = reply], err)
       ELSE \* lines 143-145: parse the response, onStaleDatabaseVersion
            [rec EXCEPT !.pc = "requery", !.reply = reply, !.attempts = 0,
                        !.hist = Append(h1, Ev("invalDb", NoShard, reply.ver,
                                               "none", "none", "none"))]

\* ---------------------------------------------------------- createCollection
\* Lines 164-186: the write concern appended to the outgoing command
\* ("none": nothing is appended).
\* Variant of cmdObjWithWc: the test of line 175 before that of line 169.
cmdObjWithWcClientFirst(isSharded, isConfigDB, clientSupplied, wc, inTxn) ==
    IF clientSupplied THEN wc
    ELSE IF isSharded /\ isConfigDB THEN "majority"
    ELSE IF inTxn THEN "none"
    ELSE "majority"

\* Variant of cmdObjWithWc: the test of line 179 before that of line 175.
cmdObjWithWcTxnFirst(isSharded, isConfigDB, clientSupplied, wc, inTxn) ==
    IF isSharded /\ isConfigDB THEN "majority"
    ELSE IF inTxn THEN "none"
    ELSE IF clientSupplied THEN wc
    ELSE "majority"

\* Variant of cmdObjWithWc: the test of line 175 negated.
cmdObjWithWcInvertedProvenance(isSharded, isConfigDB, clientSupplied, wc, inTxn) ==
    IF isSharded /\ isConfigDB THEN "majority"
    ELSE IF ~clientSupplied THEN wc
    ELSE IF inTxn THEN "none"
    ELSE "majority"

\* Variant of cmdObjWithWc: the test of line 179 before that of line 168.
cmdObjWithWcTxnBeforeConfig(isSharded, isConfigDB, clientSupplied, wc, inTxn) ==
    IF inTxn THEN (IF clientSupplied THEN wc ELSE "none")
    ELSE IF isSharded /\ isConfigDB THEN "majority"
    ELSE IF clientSupplied THEN wc
    ELSE "majority"

cmdObjWithWc(isSharded, isConfigDB, clientSupplied, wc, inTxn) ==
    IF isSharded /\ isConfigDB THEN "majority"
    ELSE IF clientSupplied THEN wc
    ELSE IF inTxn THEN "none"
    ELSE "majority"

\* appendDbVersionIfPresent: the stamp is the database version of dbInfo.
appendDbVersionIfPresent(dbInfo) == dbInfo.version

\* Lines 72-83: one request per shard id, each stamped ShardVersion::UNSHARDED.
buildUnshardedRequestsForAllShards(shardIds, dbVersion, wc, policy) ==
    [i \in 1..Len(shardIds) |-> Ev("sendShard", shardIds[i], dbVersion, wc, policy, "UNSHARDED")]

\* Variant of firstShardId without the std::sort of line 93.
firstShardIdUnsorted(shardIds) == shardIds[1]

\* Variant of firstShardId that takes the last enumerated id after the sort.
firstShardIdBack(shardIds) == SortSeq(shardIds, LAMBDA x, y : x < y)[Len(shardIds)]

\* Lines 93-94: sort the enumerated ids and take the first.
firstShardId(shardIds) == SortSeq(shardIds, LAMBDA x, y : x < y)[1]

\* Sending the envelope to its target and waiting for the response.
dispatch(rec, dbInfo, env) ==
    [rec EXCEPT !.pc = "shardWait", !.dbInfo = dbInfo, !.attempts = 1,
                !.req = env, !.hist = Append(@, env)]

\* Lines 96-103: gatherResponses sends every request of the vector; the
\* caller takes the first response.
gatherResponses(rec, dbInfo, requests) ==
    [rec EXCEPT !.pc = "shardWait", !.dbInfo = dbInfo, !.attempts = 1,
                !.req = requests[1], !.hist = @ \o requests]

\* Variant of executeCommandAgainstFirstShard without the uassert of line 92.
executeCommandAgainstFirstShardNoCheck(rec, dbInfo, wc, policy, shardIds) ==
    LET target == IF shardIds = <<>> THEN dbInfo.primary ELSE firstShardId(shardIds)
        requests == buildUnshardedRequestsForAllShards(
                        <<target>>, appendDbVersionIfPresent(dbInfo), wc, policy)
    IN gatherResponses([rec EXCEPT !.enum = shardIds], dbInfo, requests)

\* Variant of executeCommandAgainstFirstShard that builds a request for each
\* of the sorted shard ids.
executeCommandAgainstFirstShardAllShards(rec, dbInfo, wc, policy, shardIds) ==
    IF shardIds = <<>>
    THEN Finish([rec EXCEPT !.dbInfo = dbInfo], "IllegalOperation")
    ELSE LET requests == buildUnshardedRequestsForAllShards(
                             SortSeq(shardIds, LAMBDA x, y : x < y),
                             appendDbVersionIfPresent(dbInfo), wc, policy)
         IN gatherResponses([rec EXCEPT !.enum = shardIds], dbInfo, requests)

\* Lines 85-104.  shardIds is what getAllShardIds returned, in its order; the
\* operation keeps it in `enum`.
executeCommandAgainstFirstShard(rec, dbInfo, wc, policy, shardIds) ==
    IF shardIds = <<>>
    THEN Finish([rec EXCEPT !.dbInfo = dbInfo], "IllegalOperation")
    ELSE LET requests == buildUnshardedRequestsForAllShards(
                             <<firstShardId(shardIds)>>,
                             appendDbVersionIfPresent(dbInfo), wc, policy)
         IN gatherResponses([rec EXCEPT !.enum = shardIds], dbInfo, requests)

\* executeCommandAgainstDatabasePrimary: one request to the primary shard of
\* dbInfo, stamped with its database version and ShardVersion::UNSHARDED.
executeCommandAgainstDatabasePrimary(rec, dbInfo, wc, policy) ==
    dispatch(rec, dbInfo,
             Ev("sendShard", dbInfo.primary, appendDbVersionIfPresent(dbInfo),
                wc, policy, "UNSHARDED"))

\* Variant of createCollectionDispatch that passes RetryPolicy::kNoRetry on
\* the database-primary path.
createCollectionDispatchNoRetry(rec, dbInfo, shardIds) ==
    LET isSharded == rec.sharded
        isConfigDB == rec.db = "config"
        wc == cmdObjWithWc(isSharded, isConfigDB, rec.wcClient, rec.wc, rec.inTxn)
    IN IF isSharded /\ isConfigDB
       THEN executeCommandAgainstFirstShard(rec, dbInfo, wc, "Idempotent", shardIds)
       ELSE executeCommandAgainstDatabasePrimary(rec, dbInfo, wc, "NoRetry")

\* Lines 157-205: createCollection after createDatabase has returned dbInfo.
createCollectionDispatch(rec, dbInfo, shardIds) ==
    LET isSharded == rec.sharded
        isConfigDB == rec.db = "config"
        wc == cmdObjWithWc(isSharded, isConfigDB, rec.wcClient, rec.wc, rec.inTxn)
    IN IF isSharded /\ isConfigDB
       THEN executeCommandAgainstFirstShard(rec, dbInfo, wc, "Idempotent", shardIds)
       ELSE executeCommandAgainstDatabasePrimary(rec, dbInfo, wc, "Idempotent")

\* CatalogCache::invalidateShardOrEntireCollectionEntryForShardedCollection:
\* with a version the entry of the one shard is marked stale, without one the
\* entire collection entry is.
invalidateShardOrEntireCollectionEntryForShardedCollection(wantedVersion, shardId) ==
    Ev("invalColl", shardId, wantedVersion, "none", "none",
       IF wantedVersion # NoVersion THEN "shard" ELSE "entire")

\* Variant of createCollectionFinish that keys the invalidation to the
\* database version of dbInfo.
createCollectionFinishKeyedToDbInfo(rec, swStatus, reply) ==
    IF swStatus # "OK" THEN Finish([rec EXCEPT !.reply = reply], swStatus)
    ELSE IF reply.cmd # "OK" THEN Finish([rec EXCEPT !.reply = reply], reply.cmd)
    ELSE Finish([rec EXCEPT !.reply = reply,
                            !.hist = Append(@,
                                invalidateShardOrEntireCollectionEntryForShardedCollection(
                                    rec.dbInfo.version, rec.dbInfo.primary))], "OK")

\* Variant of createCollectionFinish that lets NamespaceExists pass line 208.
createCollectionFinishSwallowExists(rec, swStatus, reply) ==
    IF swStatus # "OK" THEN Finish([rec EXCEPT !.reply = reply], swStatus)
    ELSE IF reply.cmd # "OK" /\ reply.cmd # "NamespaceExists"
         THEN Finish([rec EXCEPT !.reply = reply], reply.cmd)
    ELSE Finish([rec EXCEPT !.reply = reply,
                            !.hist = Append(@,
                                invalidateShardOrEntireCollectionEntryForShardedCollection(
                                    reply.ver, rec.dbInfo.primary))], "OK")

\* Lines 207-215: createCollection once the dispatch has returned.  The
\* write-concern status of the response (reply.wc) is not looked at.
createCollectionFinish(rec, swStatus, reply) ==
    IF swStatus # "OK" THEN Finish([rec EXCEPT !.reply = reply], swStatus)
    ELSE IF reply.cmd # "OK" THEN Finish([rec EXCEPT !.reply = reply], reply.cmd)
    ELSE Finish([rec EXCEPT !.reply = reply,
                            !.hist = Append(@,
                                invalidateShardOrEntireCollectionEntryForShardedCollection(
                                    reply.ver, rec.dbInfo.primary))], "OK")

\* ------------------------------------------------ createLegacyUnshardedCollection
\* applyReadWriteConcern(opCtx, true, true, cmd): the command carries the
\* read and write concern of the operation context.
applyReadWriteConcern == "opCtx"

\* Lines 222-242: the callback of router.route reads the database from the
\* cache and sends the create command to its primary shard.
createLegacyUnshardedCollectionDispatch(rec, dbInfo) ==
    executeCommandAgainstDatabasePrimary(
        [rec EXCEPT !.hist = Append(@, Ev("routeLookup", dbInfo.primary, dbInfo.version,
                                          "none", "none", dbInfo.status))],
        dbInfo, applyReadWriteConcern, "Idempotent")

\* Variant of createLegacyUnshardedCollectionFinish without the test of line 245.
createLegacyUnshardedCollectionFinishNoSwallow(rec, swStatus, reply) ==
    IF swStatus # "OK" THEN Finish([rec EXCEPT !.reply = reply], swStatus)
    ELSE IF reply.cmd # "OK" THEN Finish([rec EXCEPT !.reply = reply], reply.cmd)
    ELSE IF reply.wc # "OK" THEN Finish([rec EXCEPT !.reply = reply], reply.wc)
    ELSE Finish([rec EXCEPT !.reply = reply], "OK")

\* Variant of createLegacyUnshardedCollectionFinish that returns success on
\* NamespaceExists without reaching the assertion of line 248.
createLegacyUnshardedCollectionFinishExistsReturns(rec, swStatus, reply) ==
    IF swStatus # "OK" THEN Finish([rec EXCEPT !.reply = reply], swStatus)
    ELSE IF reply.cmd = "NamespaceExists" THEN Finish([rec EXCEPT !.reply = reply], "OK")
    ELSE IF reply.cmd # "OK" THEN Finish([rec EXCEPT !.reply = reply], reply.cmd)
    ELSE IF reply.wc # "OK" THEN Finish([rec EXCEPT !.reply = reply], reply.wc)
    ELSE Finish([rec EXCEPT !.reply = reply], "OK")

\* Lines 233-248: the callback once the dispatch has returned.
createLegacyUnshardedCollectionFinish(rec, swStatus, reply) ==
    IF swStatus # "OK" THEN Finish([rec EXCEPT !.reply = reply], swStatus)
    ELSE IF reply.cmd # "NamespaceExists" /\ reply.cmd # "OK"
         THEN Finish([rec EXCEPT !.reply = reply], reply.cmd)
    ELSE IF reply.wc # "OK" THEN Finish([rec EXCEPT !.reply = reply], reply.wc)
    ELSE Finish([rec EXCEPT !.reply = reply], "OK")

\* What the operation does with the outcome of its command to a shard.
afterDispatch(rec, swStatus, reply) ==
    IF rec.op = "createLegacyUnshardedCollection"
    THEN createLegacyUnshardedCollectionFinish(rec, swStatus, reply)
    ELSE createCollectionFinish(rec, swStatus, reply)

\* Variant of afterCreateDatabase that returns the status of the config
\* server's response when the lookup fails.
afterCreateDatabaseResponseStatus(rec, dbStatus, shardIds) ==
    IF dbStatus.status # "OK" THEN Finish(rec, rec.reply.cmd)
    ELSE IF rec.op = "createDatabase" THEN Finish([rec EXCEPT !.dbInfo = dbStatus], "OK")
    ELSE IF rec.op = "createLegacyUnshardedCollection"
         THEN createLegacyUnshardedCollectionDispatch(rec, dbStatus)
    ELSE createCollectionDispatch(rec, dbStatus, shardIds)

\* Line 150 of createDatabase, and what its caller does with the result
\* (lines 155-157, lines 220-222).
afterCreateDatabase(rec, dbStatus, shardIds) ==
    IF dbStatus.status # "OK" THEN Finish(rec, dbStatus.status)
    ELSE IF rec.op = "createDatabase" THEN Finish([rec EXCEPT !.dbInfo = dbStatus], "OK")
    ELSE IF rec.op = "createLegacyUnshardedCollection"
         THEN createLegacyUnshardedCollectionDispatch(rec, dbStatus)
    ELSE createCollectionDispatch(rec, dbStatus, shardIds)

\* Variant of startOperation in which createCollection dispatches its command
\* without waiting for createDatabase.
startOperationSkipsCreateDatabase(rec, dbStatus, shardIds) ==
    LET r == [rec EXCEPT !.hist = Append(@, Ev("lookup", dbStatus.primary, dbStatus.version,
                                               "none", "none", dbStatus.status))]
    IN IF rec.op = "createCollection" THEN createCollectionDispatch(r, dbStatus, shardIds)
       ELSE IF dbStatus.status = "NamespaceNotFound" THEN createDatabaseYieldAndSend(r)
       ELSE afterCreateDatabase(r, dbStatus, shardIds)

\* Variant of startOperation that sends the request whatever the lookup said.
startOperationAlwaysCreates(rec, dbStatus, shardIds) ==
    createDatabaseYieldAndSend(
        [rec EXCEPT !.hist = Append(@, Ev("lookup", dbStatus.primary, dbStatus.version,
                                          "none", "none", dbStatus.status))])

\* Lines 111-128 and, on a cache hit, the rest of the operation up to its
\* first network round trip.
startOperation(rec, dbStatus, shardIds) ==
    LET r == [rec EXCEPT !.hist = Append(@, Ev("lookup", dbStatus.primary, dbStatus.version,
                                               "none", "none", dbStatus.status))]
    IN IF dbStatus.status = "NamespaceNotFound"
       THEN createDatabaseYieldAndSend(r)
       ELSE afterCreateDatabase(r, dbStatus, shardIds)

\* ----------------------- tenant migration retry override (the mongo shell)
MaxMigrations == 2      \* migration errors the servers raise before they stop
MaxBatch == 2           \* operations in a batched write

Undefined == -1         \* the value of a missing key or field

Nodes == {"rs0", "rs1"}
OtherNode(n) == IF n = "rs0" THEN "rs1" ELSE "rs0"

\* The Mongo objects: the connection created at shell startup (line 29), a
\* connection a test opened itself, and the connections that line 506 opens
\* to the recipient of a migration.
Conns == {"initialConn", "testConn", "rs0Conn", "rs1Conn"}

\* The replica set a Mongo object is connected to; the shell and the tests
\* connect to the donor of the first migration.
NodeOf(conn) == IF conn = "rs1Conn" THEN "rs1" ELSE "rs0"

\* connect(migrationStateDoc.recipientConnectionString).getMongo()
connect(node) == IF node = "rs0" THEN "rs0Conn" ELSE "rs1Conn"

\* Lines 40-46: holds for the initial connection and for a connection
\* without an internal routing connection.
assertRoutingConnection(internal, conn) ==
    conn = "initialConn" \/ internal[conn] = "null"

\* Variant of getRoutingConnectionSets without the test conn === initialConn.
getRoutingConnectionSetsAnyConn(internal, conn) ==
    IF internal[conn] = "null"
    THEN [internal EXCEPT ![conn] = conn]
    ELSE internal

\* Lines 52-54: the _internalRoutingConnection fields once
\* getRoutingConnection(conn) has run.
getRoutingConnectionSets(internal, conn) ==
    IF conn = "initialConn" /\ internal[conn] = "null"
    THEN [internal EXCEPT ![conn] = conn]
    ELSE internal

\* Lines 60-67: the connection getRoutingConnection(conn) returns, or
\* "threw" when the assertion of line 66 fails.
getRoutingConnection(internal, conn) ==
    LET i == getRoutingConnectionSets(internal, conn)
    IN IF i[conn] = "null" THEN conn
       ELSE IF ~assertRoutingConnection(i, i[conn]) THEN "threw"
       ELSE i[conn]

\* Lines 77-79: the assertion of setRoutingConnection.
setRoutingConnectionAsserts(internal, conn) == internal[conn] # "null"

\* Line 80.
setRoutingConnection(internal, conn, mongo) == [internal EXCEPT ![conn] = mongo]

MigrationCodes == {"TenantMigrationCommitted", "TenantMigrationAborted"}

\* ErrorCodes.isTenantMigrationError
isTenantMigrationError(code) == code \in MigrationCodes

\* A response: the top-level code; writeErrors, each with its index in the
\* command that was sent and its code; upserted, each with its index; the
\* counts n and nModified; the codes of the items of cursor.firstBatch; and
\* the TransientTransactionError label. An empty sequence is an absent
\* field. The field op of an entry names the operation of the original
\* command the entry is about; the shell never reads it.
\* The field outcome says what the server did with each operation of the
\* command; it is not part of the response either.
BatchRes(n, nModified, upserted, writeErrors, outcome) ==
    [code |-> "OK", n |-> n, nModified |-> nModified, upserted |-> upserted,
     writeErrors |-> writeErrors, firstBatch |-> <<>>, transient |-> FALSE,
     outcome |-> outcome]

Res(code, firstBatch, transient, outcome) ==
    [code |-> code, n |-> 0, nModified |-> 0, upserted |-> <<>>,
     writeErrors |-> <<>>, firstBatch |-> firstBatch, transient |-> transient,
     outcome |-> outcome]

NoRes == Res("none", <<>>, FALSE, <<>>)

Entry(index, code, op) == [index |-> index, code |-> code, op |-> op]

NoIndexMap == [k \in {} |-> 0]

IdleShell ==
    [pc |-> "idle", conn |-> "initialConn", cmd |-> "none", ordered |-> "absent",
     ops |-> <<>>, mode |-> "plain", numAttempts |-> 0,
     internal |-> [c \in Conns |-> "null"], donorConnection |-> "null",
     up |-> Nodes, migrations |-> 0,
     rerouted |-> [c \in Conns |-> "none"],
     n |-> 0, nModified |-> 0, upserted |-> <<>>, nonRetryableWriteErrors |-> <<>>,
     indexMap |-> NoIndexMap, bulkWriteResponse |-> NoRes,
     resObj |-> NoRes, result |-> NoRes, sent |-> <<>>, log |-> <<>>]

BatchKinds == {"insert", "update", "delete"}

\* Lines 105-132: the error object carrying errorCode, or null.
extractTenantMigrationError(resObj, errorCode) ==
    IF resObj.code = errorCode THEN errorCode
    ELSE IF \E i \in 1..Len(resObj.writeErrors) : resObj.writeErrors[i].code = errorCode
         THEN errorCode
    ELSE IF \E i \in 1..Len(resObj.firstBatch) : resObj.firstBatch[i] = errorCode
         THEN errorCode
    ELSE "null"

\* TransactionsUtil.isTransientTransactionError
isTransientTransactionError(resObj) == resObj.transient

\* Line 354-355: a txnNumber without autocommit.
isRetryableWrite(rec) == rec.mode = "retryableWrite"

Front(s) == SubSeq(s, 1, Len(s) - 1)

\* indexMap[key], undefined for a missing key.
Lookup(indexMap, key) ==
    IF key \in DOMAIN indexMap THEN indexMap[key] ELSE Undefined

\* delete indexMap[key] for every key of keys.
DeleteKeys(indexMap, keys) == [k \in (DOMAIN indexMap) \ keys |-> indexMap[k]]

\* Lines 360-374: every write of the command maps to its own index.
initialIndexMap(cmd, ops) ==
    IF cmd \in BatchKinds THEN [k \in 0..(Len(ops) - 1) |-> k] ELSE NoIndexMap

\* Lines 216-222: the values under consecutive keys from 0, in key order.
resetIndices(indexMap) ==
    LET keys == DOMAIN indexMap
        rank(k) == Cardinality({j \in keys : j < k})
    IN [i \in 0..(Cardinality(keys) - 1) |->
            indexMap[CHOOSE k \in keys : rank(k) = i]]

\* Lines 224-232.
toIndexSet(indexedDocs) == {indexedDocs[i].index : i \in 1..Len(indexedDocs)}

\* Lines 237-250: the loop runs over the positions of Object.keys(indexMap)
\* and deletes the key equal to the position; ordered is the command's
\* ordered field as it is, so only the value true counts as ordered.
removeSuccessfulOpIndexesExceptForUpserted(resObj, indexMap, ordered) ==
    LET indexSetForUpserted == toIndexSet(resObj.upserted)
        indexSetForWriteErrors == toIndexSet(resObj.writeErrors)
        succeeded ==
            {index \in 0..(Cardinality(DOMAIN indexMap) - 1) :
                /\ index \notin indexSetForUpserted
                /\ ~(/\ ordered = "true"
                     /\ resObj.writeErrors # <<>>
                     /\ index > resObj.writeErrors[1].index)
                /\ index \notin indexSetForWriteErrors}
    IN DeleteKeys(indexMap, succeeded)

\* The write errors ahead of the first tenant migration error (the loop of
\* lines 456-473 breaks there).
RECURSIVE ErrorsBeforeMigration(_)
ErrorsBeforeMigration(writeErrors) ==
    IF writeErrors = <<>> \/ isTenantMigrationError(Head(writeErrors).code)
    THEN <<>>
    ELSE <<Head(writeErrors)>> \o ErrorsBeforeMigration(Tail(writeErrors))

\* Lines 446 and 466: the entry with its index set to the write's index in
\* the original command.
Reindexed(entries, indexMap) ==
    [i \in 1..Len(entries) |->
        [entries[i] EXCEPT !.index = Lookup(indexMap, entries[i].index)]]

\* Variant of modifyCmdObjForRetry that takes every batch for ordered.
modifyCmdObjForRetrySlicesAlways(cmd, ordered, ops, resObj) ==
    IF resObj.writeErrors = <<>> /\ isTenantMigrationError(resObj.code) THEN ops
    ELSE IF cmd \notin BatchKinds THEN ops
    ELSE SubSeq(ops, resObj.writeErrors[1].index + 1, Len(ops))

\* Lines 154-211: the operations of the command that is sent next. The
\* operations of a bulkWrite are not told apart here.
modifyCmdObjForRetry(cmd, ordered, ops, resObj) ==
    IF resObj.writeErrors = <<>> /\ isTenantMigrationError(resObj.code) THEN ops
    ELSE IF cmd \notin BatchKinds THEN ops
    ELSE IF ordered = "false"
    THEN LET migrated == SelectSeq(resObj.writeErrors,
                                   LAMBDA e : isTenantMigrationError(e.code))
         IN [i \in 1..Len(migrated) |-> ops[migrated[i].index + 1]]
    ELSE SubSeq(ops, resObj.writeErrors[1].index + 1, Len(ops))

\* Lines 399-476: what the shell keeps of a response that is not part of a
\* retryable write. The entries of the response are rewritten in place, so
\* the response itself changes with them. The entries of one response have
\* different indices, so that the deletions of lines 452 and 472 do not
\* reach the lookups of lines 446 and 466.
trackAppliedWrites(rec, resObj) ==
    IF isRetryableWrite(rec) THEN rec
    ELSE LET removed ==
                 IF resObj.upserted # <<>> \/ resObj.writeErrors # <<>>
                 THEN removeSuccessfulOpIndexesExceptForUpserted(
                          resObj, rec.indexMap, rec.ordered)
                 ELSE rec.indexMap
             afterUpserted == DeleteKeys(removed, toIndexSet(resObj.upserted))
             failed == ErrorsBeforeMigration(resObj.writeErrors)
             rest == SubSeq(resObj.writeErrors, Len(failed) + 1,
                            Len(resObj.writeErrors))
         IN [rec EXCEPT
               !.bulkWriteResponse =
                   IF rec.cmd # "bulkWrite" THEN @
                   ELSE IF rec.numAttempts = 1 THEN resObj
                   ELSE [@ EXCEPT !.firstBatch = Front(@) \o resObj.firstBatch],
               !.n = IF resObj.n # 0 THEN @ + resObj.n ELSE @,
               !.nModified = IF resObj.nModified # 0 THEN @ + resObj.nModified ELSE @,
               !.upserted = @ \o Reindexed(resObj.upserted, removed),
               !.nonRetryableWriteErrors = @ \o Reindexed(failed, afterUpserted),
               !.indexMap = DeleteKeys(afterUpserted, toIndexSet(failed)),
               !.resObj = [resObj EXCEPT
                             !.upserted = Reindexed(resObj.upserted, removed),
                             !.writeErrors = Reindexed(failed, afterUpserted) \o rest]]

\* Lines 553-571: the response handed back once no migration error is left.
finalResponse(rec, resObj) ==
    IF isRetryableWrite(rec) THEN resObj
    ELSE IF rec.cmd = "bulkWrite" THEN rec.bulkWriteResponse
    ELSE [resObj EXCEPT
            !.n = IF resObj.n # 0 THEN rec.n ELSE @,
            !.nModified = IF resObj.nModified # 0 THEN rec.nModified ELSE @,
            !.upserted = IF Len(rec.upserted) > 0 THEN rec.upserted ELSE @,
            !.writeErrors = IF Len(rec.nonRetryableWriteErrors) > 0
                            THEN rec.nonRetryableWriteErrors ELSE @]

\* Lines 481-497: the command and the index map of the next attempt.
prepareRetry(rec) ==
    IF isTransientTransactionError(rec.resObj) THEN rec
    ELSE [rec EXCEPT
            !.ops = IF isRetryableWrite(rec) THEN @
                    ELSE modifyCmdObjForRetry(rec.cmd, rec.ordered, @, rec.resObj),
            !.indexMap = resetIndices(@)]

ShellReturns(rec, resObj) == [rec EXCEPT !.pc = "returned", !.result = resObj]

ShellThrows(rec) == [rec EXCEPT !.pc = "threw", !.result = NoRes]

\* Variant of the loop body whose first return does not look at the response.
runCommandRetryOnTenantMigrationErrorsFirstAttemptReturns(rec0, resObj) ==
    LET rec == [rec0 EXCEPT !.numAttempts = @ + 1, !.resObj = resObj]
        migrationCommittedErr ==
            extractTenantMigrationError(resObj, "TenantMigrationCommitted")
        migrationAbortedErr ==
            extractTenantMigrationError(resObj, "TenantMigrationAborted")
    IN IF rec.numAttempts = 1
       THEN ShellReturns(rec, resObj)
       ELSE IF /\ ~isRetryableWrite(rec) /\ rec.cmd = "bulkWrite"
               /\ rec.numAttempts > 1 /\ rec.bulkWriteResponse.firstBatch = <<>>
       THEN ShellThrows(rec)
       ELSE LET acc == trackAppliedWrites(rec, resObj)
            IN IF migrationCommittedErr # "null"
               THEN [prepareRetry(acc) EXCEPT !.pc = "reroute"]
               ELSE IF migrationAbortedErr # "null"
               THEN IF isTransientTransactionError(resObj)
                    THEN ShellReturns(acc, acc.resObj)
                    ELSE [prepareRetry(acc) EXCEPT !.pc = "attempt"]
               ELSE ShellReturns(acc, finalResponse(acc, acc.resObj))

\* Lines 376-573: one pass of the loop over the response resObj, up to the
\* return, the next pass, or the reroute that a commit asks for. Popping the
\* last item of an empty first batch (line 408) throws.
runCommandRetryOnTenantMigrationErrors(rec0, resObj) ==
    LET rec == [rec0 EXCEPT !.numAttempts = @ + 1, !.resObj = resObj]
        migrationCommittedErr ==
            extractTenantMigrationError(resObj, "TenantMigrationCommitted")
        migrationAbortedErr ==
            extractTenantMigrationError(resObj, "TenantMigrationAborted")
    IN IF rec.numAttempts = 1 /\ migrationCommittedErr = "null"
          /\ migrationAbortedErr = "null"
       THEN ShellReturns(rec, resObj)
       ELSE IF /\ ~isRetryableWrite(rec) /\ rec.cmd = "bulkWrite"
               /\ rec.numAttempts > 1 /\ rec.bulkWriteResponse.firstBatch = <<>>
       THEN ShellThrows(rec)
       ELSE LET acc == trackAppliedWrites(rec, resObj)
            IN IF migrationCommittedErr # "null"
               THEN [prepareRetry(acc) EXCEPT !.pc = "reroute"]
               ELSE IF migrationAbortedErr # "null"
               THEN IF isTransientTransactionError(resObj)
                    THEN ShellReturns(acc, acc.resObj)
                    ELSE [prepareRetry(acc) EXCEPT !.pc = "attempt"]
               ELSE ShellReturns(acc, finalResponse(acc, acc.resObj))

\* What a server does with one operation of a batch: it applies it (ok), it
\* applies an update as an upsert, it applies a delete that matches nothing
\* (zero), it fails it with DuplicateKey (err) or with a tenant migration
\* error (mig), or it does not run it at all (notRun).
Outcomes(cmd) ==
    IF cmd = "insert" THEN {"ok", "err"}
    ELSE IF cmd = "update" THEN {"ok", "upsert"}
    ELSE {"ok", "zero"}

\* The outcomes of a batch of len operations. An ordered batch stops at its
\* first error: line 244 and the slice of lines 169, 184 and 198 take the
\* operations behind it to be missing from writeErrors, lines 457-458 take
\* them to have failed with the same code after a tenant migration error,
\* and the batch answers either way. An unordered batch goes on after
\* another error, and after a tenant migration error all the rest of it
\* fails with the same code (lines 163-167 retry what writeErrors lists).
OutcomeSeqs(cmd, ordered, len, migrating) ==
    {o \in [1..len -> Outcomes(cmd) \cup {"mig", "notRun"}] :
        \A i \in 1..len :
            /\ o[i] = "mig" =>
                   /\ migrating
                   /\ \/ \A j \in i..len : o[j] = "mig"
                      \/ ordered # "false" /\ \A j \in (i + 1)..len : o[j] = "notRun"
            /\ o[i] = "notRun" =>
                   ordered # "false" /\ i > 1 /\ o[i - 1] \in {"err", "mig", "notRun"}
            /\ (o[i] \in {"err", "notRun"} /\ ordered # "false" /\ i < len) =>
                   o[i + 1] = "notRun"}

Positions(o, kinds) == SelectSeq([i \in 1..Len(o) |-> i], LAMBDA i : o[i] \in kinds)

\* The response to a batch with the outcomes o, m being the code of its
\* tenant migration errors.
BatchResponse(cmd, ops, o, m) ==
    LET up == Positions(o, {"upsert"})
        bad == Positions(o, {"err", "mig"})
    IN BatchRes(Cardinality({i \in 1..Len(o) : o[i] \in {"ok", "upsert"}}),
                IF cmd = "update"
                THEN Cardinality({i \in 1..Len(o) : o[i] = "ok"}) ELSE 0,
                [k \in 1..Len(up) |-> Entry(up[k] - 1, "none", ops[up[k]])],
                [k \in 1..Len(bad) |->
                    Entry(bad[k] - 1,
                          IF o[bad[k]] = "mig" THEN m ELSE "DuplicateKey",
                          ops[bad[k]])],
                o)

\* The servers' answers to a command: a command fails as a whole at the top
\* level; a batch write lists write errors; bulkWrite answers in a cursor
\* whose last item is the migration error. Only a transaction's error is
\* labelled transient.
TopLevelResponses(mode, ops, migrating) ==
    {Res(code, <<>>, t,
         [i \in 1..Len(ops) |-> IF code = "OK" THEN "ok"
                                ELSE "notRun"]) :
        code \in {"OK", "Unauthorized"} \cup (IF migrating THEN MigrationCodes ELSE {}),
        t \in IF mode = "txn" THEN BOOLEAN ELSE {FALSE}} \
    {Res("OK", <<>>, TRUE, [i \in 1..Len(ops) |-> "ok"])}

FirstBatches(migrating) ==
    {<<"OK">>, <<"DuplicateKey">>, <<"OK", "DuplicateKey">>} \cup
    (IF migrating
     THEN UNION {{<<m>>, <<"OK", m>>, <<"DuplicateKey", m>>} : m \in MigrationCodes}
     ELSE {})

BatchResponses(cmd, ordered, ops, migrating) ==
    {BatchResponse(cmd, ops, o, m) :
        o \in OutcomeSeqs(cmd, ordered, Len(ops), migrating),
        m \in MigrationCodes}

Responses(cmd, mode, ordered, ops, migrating) ==
    IF cmd = "bulkWrite"
    THEN {Res("OK", b, t, <<>>) :
              b \in FirstBatches(migrating),
              t \in (IF mode = "txn" THEN BOOLEAN ELSE {FALSE})} \
         {r \in {Res("OK", b, TRUE, <<>>) : b \in FirstBatches(TRUE)} :
             \A i \in 1..Len(r.firstBatch) : r.firstBatch[i] = "OK"}
    ELSE IF cmd \in BatchKinds
    THEN {r \in TopLevelResponses(mode, ops, migrating) : r.code # "OK"} \cup
         BatchResponses(cmd, ordered, ops, migrating)
    ELSE TopLevelResponses(mode, ops, migrating)

CarriesMigrationError(resObj) ==
    \E m \in MigrationCodes : extractTenantMigrationError(resObj, m) # "null"

\* ------------------------------------------- kill_transaction_cursors.js
NumDocs == 4            \* documents the script inserts (lines 17-19)
BatchSize == 2          \* batchSize of its find commands (lines 23, 31)
MaxCursorId == 3        \* cursor ids the server hands out: 1..MaxCursorId

CursorIds == 1..MaxCursorId

\* The script before line 22: a session without a transaction, no cursor,
\* no response in res. open holds the server's cursors, each with the
\* client that opened it and the transaction it was opened in (0: none).
IdleScript ==
    [pc |-> "l22", txn |-> "none", txnNumber |-> 0, open |-> {},
     res |-> [ok |-> 0, id |-> 0], kills |-> <<>>]

OpenIds(s) == {c.id : c \in s.open}

\* The server's find: a first batch of batchSize documents and, when more
\* are left, a cursor under a fresh id; an exhausted cursor has id 0.
serverFind(s, owner, id) ==
    IF NumDocs > BatchSize
    THEN [s EXCEPT !.open = @ \cup
                     {[id |-> id, owner |-> owner,
                       txn |-> IF owner = "session" /\ s.txn = "inProgress"
                               THEN s.txnNumber ELSE 0]},
                   !.res = [ok |-> 1, id |-> id]]
    ELSE [s EXCEPT !.res = [ok |-> 1, id |-> 0]]

\* The server's commitTransaction: the transaction ends, its cursors stay.
serverCommitTransaction(s) == [s EXCEPT !.txn = "committed"]

\* The server's killCursors on one id, from any client: the cursor is closed
\* and listed as killed, or listed as not found.
serverKillCursors(s, via, id) ==
    LET found == id \in OpenIds(s)
        opened == {c \in s.open : c.id = id}
    IN [s EXCEPT !.open = {c \in @ : c.id # id},
                 !.kills = Append(@, [via |-> via, id |-> id, ok |-> 1,
                                      killed |-> found,
                                      txn |-> IF found
                                              THEN (CHOOSE c \in opened : TRUE).txn
                                              ELSE 0,
                                      txnState |-> s.txn,
                                      txnNumber |-> s.txnNumber])]

\* Lines 22 and 30: session.startTransaction.
scriptStartTransaction(s) ==
    [s EXCEPT !.txn = "inProgress", !.txnNumber = @ + 1,
              !.pc = IF s.pc = "l22" THEN "l23" ELSE "l31"]

\* Variant of the find step that keeps the response of the first find.
scriptFindKeepsRes(s, id) ==
    LET r == serverFind(s, "session", id)
    IN [r EXCEPT !.res = IF s.res.ok = 1 THEN s.res ELSE @,
                 !.pc = IF s.pc = "l23" THEN "l26" ELSE "l34"]

\* Lines 23-25 and 31-33: the find in the transaction; res is its response,
\* asserted to hold a cursor id.
scriptFind(s, id) ==
    [serverFind(s, "session", id) EXCEPT !.pc = IF s.pc = "l23" THEN "l26" ELSE "l34"]

\* Lines 26 and 34: session.commitTransaction_forTesting.
scriptCommitTransaction(s) ==
    [serverCommitTransaction(s) EXCEPT !.pc = IF s.pc = "l26" THEN "l27" ELSE "l35"]

\* Lines 27 and 35: killCursors on res.cursor.id, through the session's
\* database first and through testDB, outside the session, the second time.
scriptKillCursors(s) ==
    IF s.pc = "l27"
    THEN [serverKillCursors(s, "session", s.res.id) EXCEPT !.pc = "l30"]
    ELSE [serverKillCursors(s, "testDB", s.res.id) EXCEPT !.pc = "l37"]

Init ==
    /\ liveShards \in SUBSET ShardIds
    /\ authDb = [d \in DbNames |->
                   IF d = "config"
                   THEN [exists |-> TRUE, primary |-> ConfigShardId,
                         version |-> NoVersion, creations |-> 0, bumps |-> 0]
                   ELSE [exists |-> FALSE, primary |-> NoShard,
                         version |-> NoVersion, creations |-> 0, bumps |-> 0]]
    /\ cache = [d \in DbNames |-> [valid |-> FALSE, primary |-> NoShard, version |-> NoVersion]]
    /\ shardKnows \in BOOLEAN
    /\ call = [c \in Callers |-> IdleCall]
    /\ shell = IdleShell
    /\ script = IdleScript

\* ------------------------------------------------------------------ actions
\* cluster::createDatabase called directly.
StartCreateDatabase(c) ==
    /\ call[c].pc = "idle"
    /\ \E db \in DbNames, inTxn \in BOOLEAN, sug \in {NoShard} \cup liveShards :
         LET rec == [call[c] EXCEPT !.op = "createDatabase", !.db = db,
                                    !.inTxn = inTxn, !.suggested = sug]
         IN /\ call' = [call EXCEPT ![c] = startOperation(rec, getDatabase(db), <<>>)]
            /\ cache' = CacheAfterGet(cache, db)
    /\ UNCHANGED <<jsVars, liveShards, authDb, shardKnows>>

\* cluster::createCollection; createDatabase is called without a suggested primary.
StartCreateCollection(c) ==
    /\ call[c].pc = "idle"
    /\ \E db \in DbNames, inTxn \in BOOLEAN, sharded \in BOOLEAN,
          w \in {<<FALSE, "default">>, <<TRUE, "w1">>, <<TRUE, "majority">>},
          shardIds \in Perms(liveShards) :
         LET rec == [call[c] EXCEPT !.op = "createCollection", !.db = db, !.inTxn = inTxn,
                                    !.sharded = sharded, !.wcClient = w[1], !.wc = w[2]]
         IN /\ call' = [call EXCEPT ![c] = startOperation(rec, getDatabase(db), shardIds)]
            /\ cache' = CacheAfterGet(cache, db)
    /\ UNCHANGED <<jsVars, liveShards, authDb, shardKnows>>

\* cluster::createLegacyUnshardedCollection.
StartCreateLegacyUnshardedCollection(c) ==
    /\ call[c].pc = "idle"
    /\ \E db \in DbNames, inTxn \in BOOLEAN :
         LET rec == [call[c] EXCEPT !.op = "createLegacyUnshardedCollection", !.db = db,
                                    !.inTxn = inTxn]
         IN /\ call' = [call EXCEPT ![c] = startOperation(rec, getDatabase(db), <<>>)]
            /\ cache' = CacheAfterGet(cache, db)
    /\ UNCHANGED <<jsVars, liveShards, authDb, shardKnows>>

\* The config server handles _configsvrCreateDatabase; its response is in flight.
ConfigsvrCreateDatabase(c) ==
    /\ call[c].pc = "cfgWait"
    /\ LET db == call[c].db
           d == authDb[db]
           v == IF d.version = NoVersion THEN 1 ELSE d.version + 1
       IN \E w \in {"OK", "WriteConcernFailed"} :
            \/ /\ ~d.exists /\ liveShards # {}
               /\ \E p \in liveShards :
                    /\ authDb' = [authDb EXCEPT ![db] =
                                    [exists |-> TRUE, primary |-> p, version |-> v,
                                     creations |-> d.creations + 1, bumps |-> d.bumps]]
                    /\ call' = [call EXCEPT ![c].pc = "cfgReply",
                                            ![c].reply = [cmd |-> "OK", wc |-> w, ver |-> v]]
            \/ /\ ~d.exists /\ liveShards = {}
               /\ call' = [call EXCEPT ![c].pc = "cfgReply",
                                       ![c].reply = [cmd |-> "ShardNotFound", wc |-> "OK",
                                                     ver |-> NoVersion]]
               /\ UNCHANGED authDb
            \/ /\ d.exists
               /\ \/ call' = [call EXCEPT ![c].pc = "cfgReply",
                                          ![c].reply = [cmd |-> "OK", wc |-> w,
                                                        ver |-> d.version]]
                  \/ call' = [call EXCEPT ![c].pc = "cfgReply",
                                          ![c].reply = [cmd |-> "NamespaceExists", wc |-> w,
                                                        ver |-> NoVersion]]
               /\ UNCHANGED authDb
            \/ /\ call' = [call EXCEPT ![c].pc = "cfgReply",
                                       ![c].reply = [cmd |-> "Unauthorized", wc |-> "OK",
                                                     ver |-> NoVersion]]
               /\ UNCHANGED authDb
    /\ UNCHANGED <<jsVars, liveShards, cache, shardKnows>>

\* The request or its response is lost: runCommandWithFixedRetryAttempts sends
\* the same request again while the Idempotent policy has attempts left, else
\* returns the error.  The history holds the one call of line 130; `attempts`
\* counts its transmissions.
ConfigsvrTransportError(c) ==
    /\ call[c].pc \in {"cfgWait", "cfgReply"}
    /\ IF call[c].attempts < MaxAttempts
       THEN call' = [call EXCEPT ![c].pc = "cfgWait", ![c].attempts = @ + 1,
                                 ![c].reply = NoReply]
       ELSE call' = [call EXCEPT ![c] =
                        createDatabaseResume(call[c], "HostUnreachable", "OK", NoReply)]
    /\ UNCHANGED <<jsVars, liveShards, authDb, cache, shardKnows>>

\* The operation is interrupted while the request is outstanding.
ConfigsvrCancelled(c) ==
    /\ call[c].pc \in {"cfgWait", "cfgReply"}
    /\ call' = [call EXCEPT ![c] = createDatabaseResume(call[c], "Interrupted", "OK", NoReply)]
    /\ UNCHANGED <<jsVars, liveShards, authDb, cache, shardKnows>>

\* The response arrives: lines 130-145.
ConfigsvrResponse(c) ==
    /\ call[c].pc = "cfgReply"
    /\ \E u \in IF call[c].inTxn THEN {"OK", "UnyieldError"} ELSE {"OK"} :
         LET rec == createDatabaseResume(call[c], "OK", u, call[c].reply)
         IN /\ call' = [call EXCEPT ![c] = rec]
            /\ cache' = IF rec.pc = "requery"
                        THEN onStaleDatabaseVersion(cache, call[c].db,
                                                    rec.hist[Len(rec.hist)].ver)
                        ELSE cache
    /\ UNCHANGED <<jsVars, liveShards, authDb, shardKnows>>

\* Lines 147-150, and the caller's continuation.
Requery(c) ==
    /\ call[c].pc = "requery"
    /\ \E shardIds \in Perms(liveShards) :
         LET dbStatus == getDatabase(call[c].db)
             rec == [call[c] EXCEPT !.hist = Append(@, Ev("lookup", dbStatus.primary,
                                                          dbStatus.version,
                                                          "none", "none", dbStatus.status))]
         IN call' = [call EXCEPT ![c] = afterCreateDatabase(rec, dbStatus, shardIds)]
    /\ cache' = CacheAfterGet(cache, call[c].db)
    /\ UNCHANGED <<jsVars, liveShards, authDb, shardKnows>>

\* What the target shard answers to the request in flight.
shardStatus(req, db) ==
    IF req.ver # NoVersion /\ req.ver # authDb[db].version THEN "StaleDbVersion"
    ELSE IF ~shardKnows THEN "StaleShardVersion"
    ELSE "OK"

\* Variant of ShardStaleRetry that sends the retry without invalidating.
ShardStaleRetryNoInvalidation(c) ==
    /\ call[c].pc = "shardWait"
    /\ call[c].staleRetries = 0
    /\ LET st == shardStatus(call[c].req, call[c].db)
       IN /\ st # "OK"
          /\ call' = [call EXCEPT ![c].staleRetries = 1, ![c].attempts = 1,
                                  ![c].hist = Append(@, call[c].req)]
          /\ shardKnows' = (shardKnows \/ st = "StaleShardVersion")
    /\ UNCHANGED <<jsVars, liveShards, authDb, cache>>

\* Variant of ShardStaleRetry that invalidates the cache and sends the old
\* envelope again, without stamping it anew.
ShardStaleRetryOldStamp(c) ==
    /\ call[c].pc = "shardWait"
    /\ call[c].staleRetries = 0
    /\ LET db == call[c].db
           st == shardStatus(call[c].req, db)
           ch == IF st = "StaleDbVersion"
                 THEN onStaleDatabaseVersion(cache, db, authDb[db].version)
                 ELSE cache
       IN /\ st # "OK"
          /\ call' = [call EXCEPT ![c].staleRetries = 1, ![c].attempts = 1,
                                  ![c].hist = @ \o <<Ev("staleInval", NoShard, call[c].req.ver,
                                                        "none", "none", st), call[c].req>>]
          /\ cache' = CacheAfterGet(ch, db)
          /\ shardKnows' = (shardKnows \/ st = "StaleShardVersion")
    /\ UNCHANGED <<jsVars, liveShards, authDb>>

\* The shard answers a stale-version error to the first attempt: the dispatcher
\* invalidates the cache, re-reads the version and sends the command again.
ShardStaleRetry(c) ==
    /\ call[c].pc = "shardWait"
    /\ call[c].staleRetries = 0
    /\ LET db == call[c].db
           st == shardStatus(call[c].req, db)
           ch == IF st = "StaleDbVersion"
                 THEN onStaleDatabaseVersion(cache, db, authDb[db].version)
                 ELSE cache
           info == IF ch[db].valid
                   THEN [status |-> "OK", primary |-> ch[db].primary, version |-> ch[db].version]
                   ELSE [status |-> "OK", primary |-> authDb[db].primary,
                         version |-> authDb[db].version]
           env == [call[c].req EXCEPT !.ver = appendDbVersionIfPresent(info)]
       IN /\ st # "OK"
          /\ call' = [call EXCEPT ![c].staleRetries = 1, ![c].attempts = 1, ![c].req = env,
                                  ![c].hist = @ \o <<Ev("staleInval", NoShard, call[c].req.ver,
                                                        "none", "none", st), env>>]
          /\ cache' = CacheAfterGet(ch, db)
          /\ shardKnows' = (shardKnows \/ st = "StaleShardVersion")
    /\ UNCHANGED <<jsVars, liveShards, authDb>>

\* The responses a shard that accepts the request's versions may give.  Only a
\* successful response to createCollection carries a CollectionVersion, and it
\* may carry none; a write-concern error comes with success or with
\* NamespaceExists (the command was a no-op).
ShardReplies(op) ==
    {[cmd |-> "OK", wc |-> "OK", ver |-> cv] :
        cv \in IF op = "createCollection" THEN {NoVersion} \cup 1..MaxVersion
                ELSE {NoVersion}}
    \cup {[cmd |-> "OK", wc |-> "WriteConcernFailed",
           ver |-> IF op = "createCollection" THEN 1 ELSE NoVersion],
          [cmd |-> "NamespaceExists", wc |-> "OK", ver |-> NoVersion],
          [cmd |-> "NamespaceExists", wc |-> "WriteConcernFailed", ver |-> NoVersion],
          [cmd |-> "Unauthorized", wc |-> "OK", ver |-> NoVersion]}

\* The shard's response reaches the operation: lines 207-215, lines 244-248.
ShardResponse(c) ==
    /\ call[c].pc = "shardWait"
    /\ LET st == shardStatus(call[c].req, call[c].db)
       IN IF st # "OK"
          THEN /\ call[c].staleRetries > 0
               /\ call' = [call EXCEPT ![c] = afterDispatch(
                               call[c], "OK", [cmd |-> st, wc |-> "OK", ver |-> NoVersion])]
               /\ shardKnows' = (shardKnows \/ st = "StaleShardVersion")
          ELSE /\ \E r \in ShardReplies(call[c].op) :
                    call' = [call EXCEPT ![c] = afterDispatch(call[c], "OK", r)]
               /\ UNCHANGED shardKnows
    /\ UNCHANGED <<jsVars, liveShards, authDb, cache>>

\* The request to the shard or its response is lost: the same request is sent
\* again under the Idempotent policy while attempts are left, else the error
\* is returned.
ShardTransportError(c) ==
    /\ call[c].pc = "shardWait"
    /\ IF call[c].attempts < MaxAttempts /\ call[c].req.policy = "Idempotent"
       THEN call' = [call EXCEPT ![c].attempts = @ + 1]
       ELSE call' = [call EXCEPT ![c] = afterDispatch(call[c], "HostUnreachable", NoReply)]
    /\ UNCHANGED <<jsVars, liveShards, authDb, cache, shardKnows>>

\* The authority advances the version of an existing database.
BumpDatabaseVersion(db) ==
    /\ authDb[db].exists
    /\ authDb[db].version # NoVersion
    /\ authDb[db].version < MaxVersion
    /\ authDb' = [authDb EXCEPT ![db].version = @ + 1, ![db].bumps = @ + 1]
    /\ UNCHANGED <<jsVars, liveShards, cache, shardKnows, call>>

\* Another router drops the database: the authority forgets its primary and
\* keeps the last version it handed out, so that a later creation gets a
\* newer one.
DropDatabase(db) ==
    /\ authDb[db].exists
    /\ authDb[db].version # NoVersion
    /\ authDb[db].version < MaxVersion
    /\ authDb' = [authDb EXCEPT ![db].exists = FALSE, ![db].primary = NoShard]
    /\ UNCHANGED <<jsVars, liveShards, cache, shardKnows, call>>

\* The operation has returned to its caller; the thread takes the next one.
Return(c) ==
    /\ call[c].pc = "done"
    /\ call' = [call EXCEPT ![c] = IdleCall]
    /\ UNCHANGED <<jsVars, liveShards, authDb, cache, shardKnows>>

\* One thread runs operations one after another while the authority advances
\* versions.
Next ==
    \/ StartCreateDatabase("a")
    \/ StartCreateCollection("a")
    \/ StartCreateLegacyUnshardedCollection("a")
    \/ ConfigsvrCreateDatabase("a")
    \/ ConfigsvrTransportError("a")
    \/ ConfigsvrCancelled("a")
    \/ ConfigsvrResponse("a")
    \/ Requery("a")
    \/ ShardStaleRetry("a")
    \/ ShardResponse("a")
    \/ ShardTransportError("a")
    \/ Return("a")
    \/ \E db \in DbNames : BumpDatabaseVersion(db)

Spec == Init /\ [][Next]_vars

\* Two threads each run one createDatabase, in any interleaving.
NextConcurrent ==
    \/ \E c \in Callers : StartCreateDatabase(c)
    \/ \E c \in Callers : ConfigsvrCreateDatabase(c)
    \/ \E c \in Callers : ConfigsvrTransportError(c)
    \/ \E c \in Callers : ConfigsvrCancelled(c)
    \/ \E c \in Callers : ConfigsvrResponse(c)
    \/ \E c \in Callers : Requery(c)

SpecConcurrent == Init /\ [][NextConcurrent]_vars

\* One thread runs createDatabase calls one after another while databases are
\* dropped behind its back.
NextDrop ==
    \/ StartCreateDatabase("a")
    \/ ConfigsvrCreateDatabase("a")
    \/ ConfigsvrTransportError("a")
    \/ ConfigsvrCancelled("a")
    \/ ConfigsvrResponse("a")
    \/ Requery("a")
    \/ Return("a")
    \/ \E db \in DbNames : DropDatabase(db)

SpecDrop == Init /\ [][NextDrop]_vars

\* ------------------------------------------ the shell's runCommand override
\* Mongo.prototype.runCommand (lines 576-596) enters the retry loop for a
\* command on the shell's connection or on a connection of the test's own;
\* lines 346-374 set up the counts and the index map.
runCommand(rec, conn, cmd, mode, ordered, ops) ==
    [rec EXCEPT !.pc = "attempt", !.conn = conn, !.cmd = cmd, !.mode = mode,
                !.ordered = ordered, !.ops = ops,
                !.indexMap = initialIndexMap(cmd, ops)]

\* A command that is not a batch of writes, or a bulkWrite.
StartRunCommand ==
    /\ shell.pc = "idle"
    /\ \E conn \in {"initialConn", "testConn"},
          cmd \in {"command", "bulkWrite"},
          mode \in {"plain", "retryableWrite", "txn"} :
         shell' = runCommand(shell, conn, cmd, mode, "absent", <<>>)
    /\ UNCHANGED <<ddlVars, script>>

\* An insert, update or delete of up to MaxBatch operations on the shell's
\* connection, with the ordered field true, false or left out.
StartBatchWrite ==
    /\ shell.pc = "idle"
    /\ \E cmd \in BatchKinds,
          mode \in {"plain", "retryableWrite", "txn"},
          ordered \in {"true", "false", "absent"},
          len \in 1..MaxBatch :
         shell' = runCommand(shell, "initialConn", cmd, mode, ordered,
                             [i \in 1..len |-> i - 1])
    /\ UNCHANGED <<ddlVars, script>>

\* Lines 377-384 and the pass over the response: the command runs on the
\* routing connection; an unreachable node makes originalRunCommand throw.
RunAttempt ==
    /\ shell.pc = "attempt"
    /\ LET newConn == getRoutingConnection(shell.internal, shell.conn)
           rec == [shell EXCEPT
                     !.internal = getRoutingConnectionSets(@, shell.conn)]
       IN IF newConn = "threw" \/ NodeOf(newConn) \notin shell.up
          THEN shell' = ShellThrows([rec EXCEPT !.numAttempts = @ + 1])
          ELSE \E resObj \in Responses(shell.cmd, shell.mode, shell.ordered, shell.ops,
                                       shell.migrations < MaxMigrations) :
                 shell' = runCommandRetryOnTenantMigrationErrors(
                              [rec EXCEPT
                                 !.migrations =
                                     IF CarriesMigrationError(resObj) THEN @ + 1 ELSE @,
                                 !.sent = Append(@, [node |-> NodeOf(newConn),
                                                     ops |-> shell.ops]),
                                 !.log = Append(@, resObj)],
                              resObj)
    /\ UNCHANGED <<ddlVars, script>>

\* Lines 499-530: the donor's state document names the recipient; reading
\* the document from an unreachable donor or connecting to an unreachable
\* recipient throws. With auto encryption on, lines 507-510 set it on the
\* new connection through the overrides of lines 659-671. Line 512 makes the
\* new connection the routing connection, and the wait for the fixture's
\* dbhash check throws when it times out.
RerouteToRecipient ==
    /\ shell.pc = "reroute"
    /\ LET donorConnection == getRoutingConnection(shell.internal, shell.conn)
           otherConn == connect(OtherNode(NodeOf(donorConnection)))
       IN IF donorConnection = "threw" \/ shell.up # Nodes
          THEN shell' = ShellThrows(shell)
          ELSE \E autoEncryption \in BOOLEAN :
                 LET internal ==
                         IF autoEncryption
                         THEN getRoutingConnectionSets(shell.internal, otherConn)
                         ELSE shell.internal
                     rec == [shell EXCEPT
                               !.internal = internal,
                               !.donorConnection = donorConnection,
                               !.rerouted[shell.conn] = NodeOf(otherConn)]
                 IN IF ~setRoutingConnectionAsserts(internal, shell.conn)
                    THEN shell' = ShellThrows(rec)
                    ELSE LET routed ==
                                 [rec EXCEPT !.internal =
                                     setRoutingConnection(@, shell.conn, otherConn)]
                         IN \/ shell' = [routed EXCEPT !.pc = "record"]
                            \/ shell' = ShellThrows(routed)
    /\ UNCHANGED <<ddlVars, script>>

\* Lines 532-551 with recordRerouteDueToTenantMigration (lines 295-335): the
\* insert on the donor is repeated for as long as it fails with a retryable
\* error; any other failure throws; a shard split passthrough closes the
\* donor connection through the override of lines 650-655; then a transient
\* response is returned and any other one starts the next pass.
RecordReroute ==
    /\ shell.pc = "record"
    /\ IF NodeOf(shell.donorConnection) \notin shell.up
       THEN UNCHANGED shell
       ELSE \/ \E isShardSplitPassthrough \in BOOLEAN :
                 LET rec == [shell EXCEPT !.internal =
                                IF /\ isShardSplitPassthrough
                                   /\ shell.donorConnection # "initialConn"
                                THEN getRoutingConnectionSets(@, shell.donorConnection)
                                ELSE @]
                 IN shell' = IF isTransientTransactionError(shell.resObj)
                             THEN ShellReturns(rec, shell.resObj)
                             ELSE [rec EXCEPT !.pc = "attempt"]
            \/ shell' = ShellThrows(shell)
    /\ UNCHANGED <<ddlVars, script>>

\* The caller has the response or the exception; the connections keep their
\* routing connections for the next command.
ShellReturn ==
    /\ shell.pc \in {"returned", "threw"}
    /\ shell' = [IdleShell EXCEPT !.internal = shell.internal, !.up = shell.up,
                                  !.migrations = shell.migrations,
                                  !.rerouted = shell.rerouted]
    /\ UNCHANGED <<ddlVars, script>>

NodeFails(n) ==
    /\ n \in shell.up
    /\ shell' = [shell EXCEPT !.up = @ \ {n}]
    /\ UNCHANGED <<ddlVars, script>>

NodeRecovers(n) ==
    /\ n \notin shell.up
    /\ shell' = [shell EXCEPT !.up = @ \cup {n}]
    /\ UNCHANGED <<ddlVars, script>>

\* The shell's commands leave the router alone: one state of the cluster
\* stands for all of them.
InitShell == Init /\ liveShards = ShardIds /\ shardKnows

\* The shell runs commands one after another through the override while
\* migrations commit or abort and nodes come and go.
NextRetry ==
    \/ StartRunCommand
    \/ RunAttempt
    \/ RerouteToRecipient
    \/ RecordReroute
    \/ ShellReturn
    \/ \E n \in Nodes : NodeFails(n)
    \/ \E n \in Nodes : NodeRecovers(n)

\* The shell is single threaded and every call it makes blocks until the
\* answer or the network error: a pass that can be made is made.
SpecRetry ==
    /\ InitShell
    /\ [][NextRetry]_vars
    /\ WF_vars(RunAttempt)
    /\ WF_vars(RerouteToRecipient)
    /\ WF_vars(RecordReroute)

\* The shell sends batched writes one after another through the override
\* while migrations commit or abort.
NextBatch ==
    \/ StartBatchWrite
    \/ RunAttempt
    \/ RerouteToRecipient
    \/ RecordReroute
    \/ ShellReturn

SpecBatch == InitShell /\ [][NextBatch]_vars

\* --------------------------------------------- kill_transaction_cursors.js
ScriptStartTransaction ==
    /\ script.pc \in {"l22", "l30"}
    /\ script' = scriptStartTransaction(script)
    /\ UNCHANGED <<ddlVars, shell>>

ScriptFind ==
    /\ script.pc \in {"l23", "l31"}
    /\ \E id \in CursorIds \ OpenIds(script) : script' = scriptFind(script, id)
    /\ UNCHANGED <<ddlVars, shell>>

ScriptCommitTransaction ==
    /\ script.pc \in {"l26", "l34"}
    /\ script' = scriptCommitTransaction(script)
    /\ UNCHANGED <<ddlVars, shell>>

ScriptKillCursors ==
    /\ script.pc \in {"l27", "l35"}
    /\ script' = scriptKillCursors(script)
    /\ UNCHANGED <<ddlVars, shell>>

\* Line 37: session.endSession.
ScriptEndSession ==
    /\ script.pc = "l37"
    /\ script' = [script EXCEPT !.pc = "done", !.txn = "none"]
    /\ UNCHANGED <<ddlVars, shell>>

\* Another client of the server opens a cursor of its own.
OtherOpensCursor ==
    /\ Cardinality(OpenIds(script)) < MaxCursorId - 1
    /\ \E id \in CursorIds \ OpenIds(script) :
         script' = [script EXCEPT !.open = @ \cup {[id |-> id, owner |-> "other", txn |-> 0]}]
    /\ UNCHANGED <<ddlVars, shell>>

\* Another client closes one of its own cursors.
OtherClosesCursor ==
    /\ \E c \in script.open :
         /\ c.owner = "other"
         /\ script' = [script EXCEPT !.open = @ \ {c}]
    /\ UNCHANGED <<ddlVars, shell>>

\* The script runs once, next to another client of the same server.
NextKill ==
    \/ ScriptStartTransaction
    \/ ScriptFind
    \/ ScriptCommitTransaction
    \/ ScriptKillCursors
    \/ ScriptEndSession
    \/ OtherOpensCursor
    \/ OtherClosesCursor

SpecKill == Init /\ [][NextKill]_vars

TypeOK ==
    /\ liveShards \subseteq ShardIds
    /\ \A c \in Callers : call[c].pc \in {"idle", "cfgWait", "cfgReply", "requery",
                                          "shardWait", "done"}

\* ------------------------------------------------------- claim vocabulary
HasEv(c, name) == \E i \in 1..Len(call[c].hist) : call[c].hist[i].ev = name

LastEv(c) == call[c].hist[Len(call[c].hist)]

\* createDatabase has returned or thrown in operation c.
CreateDatabaseExited(c) == call[c].pc \in {"shardWait", "done"}

\* Operation c ended inside createDatabase right after unyieldNoThrow, on the
\* response call[c].reply of the config server.
EndedOnConfigResponse(c) ==
    /\ call[c].pc = "done"
    /\ Len(call[c].hist) > 0
    /\ LastEv(c).ev = "unyield"

SentToShards(c) == {i \in 1..Len(call[c].hist) : call[c].hist[i].ev = "sendShard"}

Min(S) == CHOOSE x \in S : \A y \in S : x <= y

\* ------------------------------------------------------------------ C1
\* C1: once createDatabase has yielded the session, unyield has been invoked
\* exactly once when createDatabase is left, on every exit path.
C1_UnyieldOnEveryExit ==
    \A c \in Callers :
        (CreateDatabaseExited(c) /\ HasEv(c, "yield")) => CountEv(call[c].hist, "unyield") = 1

\* ------------------------------------------------------------------ C2
\* C2: when the config server's response carries a write-concern or command
\* error and unyield fails too, createDatabase surfaces the response's error.
C2_NestedErrorNotMasked ==
    \A c \in Callers :
        (/\ EndedOnConfigResponse(c)
         /\ LastEv(c).sv # "OK"
         /\ (call[c].reply.wc # "OK" \/ call[c].reply.cmd # "OK"))
        => call[c].result = (IF call[c].reply.wc # "OK" THEN call[c].reply.wc
                             ELSE call[c].reply.cmd)

\* ------------------------------------------------------------------ C3
\* Operations c1 and c2 are two finished createDatabase calls for the same
\* database, neither of which found it in the cache.
RacedCreateDatabase(c1, c2) ==
    /\ c1 # c2
    /\ call[c1].db = call[c2].db
    /\ \A c \in {c1, c2} : /\ call[c].op = "createDatabase"
                           /\ call[c].pc = "done"
                           /\ HasEv(c, "yield")

\* The config server's response reached operation c, unyield succeeded, the
\* response has no write-concern error and the request was not rejected.
NoFault(c) ==
    /\ EndedOnConfigResponse(c) \/ HasEv(c, "invalDb")
    /\ \A i \in 1..Len(call[c].hist) :
          call[c].hist[i].ev = "unyield" => call[c].hist[i].sv = "OK"
    /\ call[c].reply.wc = "OK"
    /\ call[c].reply.cmd \in {"OK", "NamespaceExists"}

IsCreateCollection(c) == call[c].op = "createCollection"

ShardedInConfigDB(c) == call[c].sharded /\ call[c].db = "config"

\* The write concern carried by each command operation c has sent to a shard.
SentWcs(c) == {call[c].hist[i].wc : i \in SentToShards(c)}

\* C5 as claimed: client-supplied write concern first; else majority when not
\* in a transaction and sharded in the config database; else none appended in
\* a transaction; else majority.
C5_WriteConcernPriorityClaimed ==
    \A c \in Callers : IsCreateCollection(c) =>
        \A w \in SentWcs(c) :
            w = (IF call[c].wcClient THEN call[c].wc
                 ELSE IF ~call[c].inTxn /\ ShardedInConfigDB(c) THEN "majority"
                 ELSE IF call[c].inTxn THEN "none"
                 ELSE "majority")

\* C5 amended: majority for a sharded creation in the config database, whatever
\* the client supplied and whether or not in a transaction; else the client's
\* write concern; else none appended in a transaction; else majority.
C5_WriteConcernPriority ==
    \A c \in Callers : IsCreateCollection(c) =>
        \A w \in SentWcs(c) :
            /\ ShardedInConfigDB(c) => w = "majority"
            /\ (~ShardedInConfigDB(c) /\ call[c].wcClient) => w = call[c].wc
            /\ (~ShardedInConfigDB(c) /\ ~call[c].wcClient /\ call[c].inTxn) => w = "none"
            /\ (~ShardedInConfigDB(c) /\ ~call[c].wcClient /\ ~call[c].inTxn) => w = "majority"

C5_Witness ==
    \E c \in Callers :
        /\ IsCreateCollection(c) /\ ShardedInConfigDB(c)
        /\ call[c].wcClient /\ call[c].wc = "w1"
        /\ SentWcs(c) = {"majority"}

\* C6 as claimed: in a transaction the caller's explicit write concern is not
\* carried by the command; nothing is appended.
C6_TxnIgnoresClientWc ==
    \A c \in Callers :
        (IsCreateCollection(c) /\ call[c].inTxn /\ call[c].wcClient)
        => \A w \in SentWcs(c) : w = "none"

\* C6 amended: in a transaction the caller's explicit write concern is carried
\* by the command as it is outside one, except for a sharded creation in the
\* config database; nothing is appended only when the caller supplied none.
C6_TxnCarriesClientWc ==
    \A c \in Callers :
        (IsCreateCollection(c) /\ call[c].inTxn /\ ~ShardedInConfigDB(c))
        => \A w \in SentWcs(c) : w = (IF call[c].wcClient THEN call[c].wc ELSE "none")

C6_Witness ==
    \E c \in Callers :
        /\ IsCreateCollection(c) /\ call[c].inTxn /\ ~ShardedInConfigDB(c)
        /\ call[c].wcClient /\ call[c].wc = "w1"
        /\ SentWcs(c) = {"w1"}

\* C7 as claimed: outside a transaction the caller's explicit write concern is
\* carried verbatim for every namespace and sharding mode.
C7_ClientWcVerbatimEverywhere ==
    \A c \in Callers :
        (IsCreateCollection(c) /\ ~call[c].inTxn /\ call[c].wcClient)
        => \A w \in SentWcs(c) : w = call[c].wc

\* C7 amended: outside a transaction the caller's explicit write concern is
\* carried verbatim, except for a sharded creation in the config database,
\* whose command carries majority.
C7_ClientWcVerbatim ==
    \A c \in Callers :
        (IsCreateCollection(c) /\ ~call[c].inTxn /\ call[c].wcClient)
        => \A w \in SentWcs(c) :
              w = (IF ShardedInConfigDB(c) THEN "majority" ELSE call[c].wc)

C7_Witness ==
    \E c \in Callers :
        /\ IsCreateCollection(c) /\ ~call[c].inTxn /\ ~ShardedInConfigDB(c)
        /\ call[c].wcClient /\ call[c].wc = "w1"
        /\ SentWcs(c) = {"w1"}

\* ------------------------------------------------------------------ C8
AnyRequestSent(c) == HasEv(c, "sendCfg") \/ HasEv(c, "sendShard")

\* C8 as claimed: with no live shard both createDatabase and createCollection
\* fail with IllegalOperation and no request has been sent.
C8_NoShardsAlwaysIllegalOperation ==
    \A c \in Callers :
        (liveShards = {} /\ call[c].pc = "done")
        => (call[c].result = "IllegalOperation" /\ ~AnyRequestSent(c))

\* C8 amended: with no live shard a createCollection on the first-shard path
\* (sharded creation in the config database) fails with IllegalOperation as
\* soon as createDatabase has returned, and no request has been sent to any
\* shard.
C8_NoShardsFirstShardPath ==
    \A c \in Callers :
        (/\ liveShards = {} /\ IsCreateCollection(c) /\ ShardedInConfigDB(c)
         /\ call[c].dbInfo.status = "OK")
        => /\ call[c].pc = "done"
           /\ call[c].result = "IllegalOperation"
           /\ SentToShards(c) = {}

C8_Witness ==
    \E c \in Callers :
        /\ liveShards = {} /\ IsCreateCollection(c) /\ ShardedInConfigDB(c)
        /\ call[c].pc = "done" /\ call[c].result = "IllegalOperation"

C10_SingleTarget ==
    \A c \in Callers : IsCreateCollection(c) =>
        \A i \in SentToShards(c) :
            /\ call[c].hist[i].shard = (IF ShardedInConfigDB(c) THEN Min(liveShards)
                                        ELSE call[c].dbInfo.primary)
            /\ call[c].dbInfo.primary = authDb[call[c].db].primary

C10_Witness ==
    \E c \in Callers :
        /\ IsCreateCollection(c) /\ ShardedInConfigDB(c)
        /\ Cardinality(liveShards) > 1
        /\ SentToShards(c) # {}
        /\ \A i \in SentToShards(c) : call[c].hist[i].shard = Min(liveShards)

\* ------------------------------------------------------------------ C11
\* Operation c went through executeCommandAgainstFirstShard and got a
\* non-empty enumeration from the shard registry.
TookFirstShardPath(c) == call[c].enum # <<>>

Range(f) == {f[i] : i \in DOMAIN f}

\* C11: for a fixed non-empty set of live shards, every request of the
\* first-shard path goes to the smallest live shard id, whatever the order in
\* which the registry enumerated the ids and whatever calls came before.
C11_FirstShardIsMinimum ==
    \A c \in Callers : TookFirstShardPath(c) =>
        /\ Range(call[c].enum) = liveShards
        /\ SentToShards(c) # {}
        /\ \A i \in SentToShards(c) :
              /\ call[c].hist[i].shard = Min(liveShards)
              /\ \A s \in Range(call[c].enum) : call[c].hist[i].shard <= s

\* The registry enumerated the ids with a larger one first, in a call that
\* follows an earlier call which created the database "app".
C11_Witness ==
    \E c \in Callers :
        /\ TookFirstShardPath(c)
        /\ call[c].enum[1] # Min(liveShards)
        /\ authDb["app"].exists
        /\ \E i \in SentToShards(c) : call[c].hist[i].shard = Min(liveShards)

\* ------------------------------------------------------------------ C12
\* The shard's response to the command of createCollection reached operation
\* c, which has ended; call[c].reply is that response.
ShardReplied(c) ==
    /\ IsCreateCollection(c) /\ call[c].pc = "done"
    /\ SentToShards(c) # {}
    /\ call[c].reply.cmd # "none"

\* C12: when the shard's response carries a write-concern error or a command
\* error, createCollection ends with an error and has not invalidated the
\* collection's cache entry.
C12_BothStatusesChecked ==
    \A c \in Callers :
        (ShardReplied(c) /\ (call[c].reply.wc # "OK" \/ call[c].reply.cmd # "OK"))
        => (call[c].result # "OK" /\ ~HasEv(c, "invalColl"))

\* ------------------------------------------------------------------ C13
\* C13: when the dispatch of createCollection succeeds, createCollection
\* issues one collection invalidation after the response and nothing else: it
\* is keyed to the CollectionVersion of the response and names the primary of
\* dbInfo; it invalidates that shard's entry when the response carries a
\* version and the entire collection entry when it carries none.
C13_OneInvalidationKeyedToResponse ==
    \A c \in Callers :
        (ShardReplied(c) /\ call[c].reply.cmd = "OK")
        => LET h == call[c].hist
               n == Len(h)
           IN /\ call[c].result = "OK"
              /\ CountEv(h, "invalColl") = 1
              /\ h[n].ev = "invalColl" /\ h[n - 1].ev = "sendShard"
              /\ h[n].ver = call[c].reply.ver
              /\ h[n].shard = call[c].dbInfo.primary
              /\ h[n].sv = (IF call[c].reply.ver # NoVersion THEN "shard" ELSE "entire")

\* A response with a CollectionVersion that differs from the database version.
C13_Witness ==
    \E c \in Callers :
        /\ ShardReplied(c) /\ call[c].reply.cmd = "OK"
        /\ call[c].reply.ver # NoVersion
        /\ call[c].reply.ver # call[c].dbInfo.version
        /\ HasEv(c, "invalColl")

\* ------------------------------------------------------------------ C14
\* The lookup at the start of createDatabase in operation c returned a valid
\* snapshot.
FirstLookupHit(c) ==
    /\ call[c].hist # <<>>
    /\ call[c].hist[1].ev = "lookup" /\ call[c].hist[1].sv = "OK"

\* C14: when the lookup at the start of createDatabase returns a valid
\* snapshot, the operation never yields the session, sends nothing to the
\* config server, makes no database invalidation, and createDatabase returns
\* that snapshot.
C14_CacheHitFastPath ==
    \A c \in Callers : FirstLookupHit(c) =>
        LET h == call[c].hist
        IN /\ \A i \in 1..Len(h) : h[i].ev \notin {"yield", "sendCfg", "unyield", "invalDb"}
           /\ CreateDatabaseExited(c)
           /\ call[c].dbInfo = [status |-> "OK", primary |-> h[1].shard, version |-> h[1].ver]
           /\ (call[c].op = "createDatabase") => (call[c].result = "OK" /\ Len(h) = 1)

\* A createDatabase for a database that an earlier call created.
C14_Witness ==
    \E c \in Callers :
        /\ FirstLookupHit(c)
        /\ call[c].op = "createDatabase" /\ call[c].db = "app"
        /\ call[c].result = "OK"
        /\ call[c].dbInfo.version # NoVersion

\* ------------------------------------------------------------------ C15
\* C15: when the lookup at the start of createDatabase returns
\* NamespaceNotFound, the session is yielded and then the request is sent;
\* every create-database request is preceded by the yield, goes to the config
\* shard and carries majority write concern, whatever write concern and
\* transaction state the operation has.
C15_YieldBeforeMajorityRequest ==
    \A c \in Callers :
        LET h == call[c].hist
        IN /\ (h # <<>> /\ h[1].sv = "NamespaceNotFound")
              => (Len(h) >= 3 /\ h[2].ev = "yield" /\ h[3].ev = "sendCfg")
           /\ \A i \in 1..Len(h) : h[i].ev = "sendCfg" =>
                 /\ \E j \in 1..(i - 1) : h[j].ev = "yield"
                 /\ h[i].shard = ConfigShardId
                 /\ h[i].wc = "majority"
                 /\ h[1].sv = "NamespaceNotFound"

\* The operation is in a transaction and carries a client write concern that
\* is not majority.
C15_Witness ==
    \E c \in Callers :
        /\ call[c].inTxn /\ call[c].wcClient /\ call[c].wc = "w1"
        /\ HasEv(c, "yield") /\ HasEv(c, "sendCfg")

\* ------------------------------------------------------------------ C16
\* C16: a create-database response without error, followed by a successful
\* unyield, is followed by one onStaleDatabaseVersion call with the
\* DatabaseVersion of that response, then by the second lookup; what
\* createDatabase returns is the result of that second lookup.
C16_InvalidateThenRequery ==
    \A c \in Callers :
        LET h == call[c].hist
            i == IndexOf(h, "invalDb")
        IN /\ ~(EndedOnConfigResponse(c) /\ NoFault(c) /\ call[c].reply.cmd = "OK")
           /\ HasEv(c, "invalDb") =>
                 /\ CountEv(h, "invalDb") = 1
                 /\ CountEv(h, "lookup") = (IF call[c].pc = "requery" THEN 1 ELSE 2)
                 /\ h[i - 1].ev = "unyield" /\ h[i - 1].sv = "OK"
                 /\ (call[c].pc = "requery" \/ call[c].op = "createDatabase")
                    => (/\ call[c].reply.cmd = "OK" /\ call[c].reply.wc = "OK"
                        /\ h[i].ver = call[c].reply.ver)
                 /\ call[c].pc = "requery" => i = Len(h)
                 /\ call[c].pc # "requery" =>
                       /\ h[i + 1].ev = "lookup"
                       /\ IF h[i + 1].sv = "OK"
                          THEN call[c].dbInfo = [status |-> "OK", primary |-> h[i + 1].shard,
                                                 version |-> h[i + 1].ver]
                          ELSE call[c].pc = "done" /\ call[c].result = h[i + 1].sv
                       /\ (call[c].op = "createDatabase" /\ h[i + 1].sv = "OK")
                          => call[c].result = "OK"

\* The database was created by this call and its version has advanced since:
\* the second lookup returns the newer version.
C16_Witness ==
    \E c \in Callers :
        /\ call[c].op = "createDatabase" /\ call[c].pc = "done"
        /\ HasEv(c, "invalDb")
        /\ call[c].result = "OK"
        /\ call[c].dbInfo.version # call[c].reply.ver

\* ------------------------------------------------------------------ C17
\* Operation c sent a create-database request, got a response that let it go
\* on to the second lookup, and that lookup reported NamespaceNotFound.
RequeryNotFound(c) ==
    /\ call[c].pc = "done"
    /\ HasEv(c, "invalDb")
    /\ LastEv(c).ev = "lookup" /\ LastEv(c).sv = "NamespaceNotFound"

\* C17 as claimed: when the second lookup still reports the database as not
\* found, createDatabase surfaces an error the config server reported for the
\* request.
C17_SurfacesAuthorityError ==
    \A c \in Callers :
        RequeryNotFound(c)
        => call[c].result \in ({call[c].reply.wc, call[c].reply.cmd} \ {"OK"})

\* C17 amended: the second lookup is reached only after a response without
\* error, and when it reports the database as not found (it was dropped in
\* between) createDatabase surfaces the NamespaceNotFound of that lookup.
C17_SurfacesLookupStatus ==
    \A c \in Callers :
        RequeryNotFound(c)
        => /\ call[c].result = "NamespaceNotFound"
           /\ call[c].reply.cmd = "OK" /\ call[c].reply.wc = "OK"
           /\ ~authDb[call[c].db].exists

C17_Witness ==
    \E c \in Callers :
        /\ RequeryNotFound(c)
        /\ authDb[call[c].db].creations = 1
        /\ call[c].result = "NamespaceNotFound"

\* ------------------------------------------------------------------ C18
\* C18: when the config server's response to the create-database request
\* carries a write-concern error, or a command error other than
\* NamespaceExists, createDatabase fails with that error.
C18_ConfigErrorReachesCaller ==
    \A c \in Callers :
        (/\ EndedOnConfigResponse(c)
         /\ (call[c].reply.wc # "OK" \/ call[c].reply.cmd \notin {"OK", "NamespaceExists"}))
        => call[c].result \in ({call[c].reply.wc, call[c].reply.cmd} \ {"OK", "NamespaceExists"})

\* ------------------------------------------------------------------ C19
\* The primary shard's response to the command of
\* createLegacyUnshardedCollection reached operation c, which has ended.
LegacyReplied(c) ==
    /\ call[c].op = "createLegacyUnshardedCollection" /\ call[c].pc = "done"
    /\ SentToShards(c) # {}
    /\ call[c].reply.cmd # "none"

C20_LegacyCreateIdempotent ==
    \A c \in Callers :
        (/\ LegacyReplied(c)
         /\ call[c].reply.cmd = "NamespaceExists" /\ call[c].reply.wc = "OK")
        => /\ call[c].result = "OK"
           /\ ~HasEv(c, "invalColl")
           /\ LastEv(c).ev = "sendShard"

\* The existing collection is met by a call that created the database itself.
C20_Witness ==
    \E c \in Callers :
        /\ LegacyReplied(c)
        /\ call[c].reply.cmd = "NamespaceExists" /\ call[c].reply.wc = "OK"
        /\ HasEv(c, "invalDb")
        /\ call[c].result = "OK"

CreateDatabaseReturnedAt(c) ==
    LET h == call[c].hist
        L == {i \in 1..Len(h) : h[i].ev = "lookup"}
    IN IF L = {} THEN 0
       ELSE LET m == CHOOSE i \in L : \A j \in L : j <= i
            IN IF h[m].sv = "OK" THEN m ELSE 0

\* C22: in createCollection every command to a shard is sent after
\* createDatabase has returned a database, and every collection invalidation
\* comes after every command; once createDatabase has failed the operation
\* has ended with no command sent and no collection invalidation.
C22_ResolveDispatchInvalidate ==
    \A c \in Callers : IsCreateCollection(c) =>
        LET h == call[c].hist
            r == CreateDatabaseReturnedAt(c)
        IN /\ \A i \in 1..Len(h) :
                 /\ h[i].ev \in {"sendShard", "staleInval", "invalColl"} => (r > 0 /\ r < i)
                 /\ h[i].ev = "invalColl"
                    => (i = Len(h) /\ \E j \in 1..(i - 1) : h[j].ev = "sendShard")
           /\ (call[c].pc = "done" /\ r = 0)
              => (/\ call[c].result # "OK"
                  /\ ~HasEv(c, "sendShard") /\ ~HasEv(c, "invalColl"))
           /\ call[c].pc = "shardWait" => r > 0

\* createDatabase created the database, the command went out and the
\* collection entry was invalidated.
C22_Witness ==
    \E c \in Callers :
        /\ IsCreateCollection(c) /\ call[c].pc = "done" /\ call[c].result = "OK"
        /\ HasEv(c, "sendCfg") /\ HasEv(c, "sendShard") /\ HasEv(c, "invalColl")

\* ------------------------------------------------------------------ C23
\* C23: every command that createDatabase, createCollection (first-shard path
\* and database-primary path) and createLegacyUnshardedCollection send, to the
\* config server or to a shard, is passed with the Idempotent retry policy.
C23_AlwaysIdempotent ==
    \A c \in Callers :
        /\ \A i \in 1..Len(call[c].hist) :
              call[c].hist[i].ev \in {"sendCfg", "sendShard"}
              => call[c].hist[i].policy = "Idempotent"
        /\ call[c].pc = "shardWait" => call[c].req.policy = "Idempotent"

\* A command to a shard that has been sent again after a transport error, in
\* an operation that had sent a command to the config server before.
C23_Witness ==
    \E c \in Callers :
        /\ call[c].pc = "shardWait" /\ call[c].attempts > 1
        /\ HasEv(c, "sendCfg")
        /\ call[c].req.policy = "Idempotent"

\* ------------------------------------------------------------------ C24
\* C24: every request of the first-shard path carries the UNSHARDED shard
\* version and the database version of the resolved dbInfo (none when dbInfo
\* has none); one request is sent per dispatch, to the selected shard, and
\* no other shard is sent anything.
C24_FirstShardRequest ==
    \A c \in Callers : TookFirstShardPath(c) =>
        LET h == call[c].hist
        IN /\ Cardinality(SentToShards(c)) = 1 + call[c].staleRetries
           /\ \A i \in SentToShards(c) :
                 /\ h[i].sv = "UNSHARDED"
                 /\ call[c].staleRetries = 0 => h[i].ver = call[c].dbInfo.version
                 /\ h[i].shard = firstShardId(call[c].enum)
                 /\ h[i - 1].ev \in {"lookup", "staleInval"}

\* The registry holds every shard and one request has been sent.
C24_Witness ==
    \E c \in Callers :
        /\ TookFirstShardPath(c)
        /\ Len(call[c].enum) = NumShards
        /\ call[c].pc = "done" /\ call[c].result = "OK"
        /\ Cardinality(SentToShards(c)) = 1

\* The retry loop of the shell is running.
ShellRunning == shell.pc \in {"attempt", "reroute", "record"}

\* The call has handed a response or an exception to its caller.
ShellFinished == shell.pc \in {"returned", "threw"}

\* What the call may return: a response without a migration error, or one
\* labelled TransientTransactionError; and a pass is repeated only after a
\* response that carried a migration error.
ShellReturnsClean ==
    /\ shell.pc = "returned" /\ CarriesMigrationError(shell.result)
          => isTransientTransactionError(shell.result)
    /\ shell.pc = "returned" /\ CarriesMigrationError(shell.resObj)
          => isTransientTransactionError(shell.resObj) /\ shell.result = shell.resObj
    /\ shell.pc \in {"attempt", "reroute", "record"} /\ shell.numAttempts > 0
          => CarriesMigrationError(shell.resObj)
    /\ shell.pc = "attempt" /\ shell.numAttempts > 0
          => ~isTransientTransactionError(shell.resObj)

C27_ConfigShardedAlwaysMajority ==
    \A c \in Callers :
        (IsCreateCollection(c) /\ ShardedInConfigDB(c))
        => \A i \in SentToShards(c) :
              call[c].hist[i].wc = "majority"

\* A sharded creation in the config database, in a transaction and with a
\* client write concern other than majority, has sent its command.
C27_Witness ==
    \E c \in Callers :
        /\ IsCreateCollection(c) /\ ShardedInConfigDB(c)
        /\ call[c].inTxn /\ call[c].wcClient /\ call[c].wc = "w1"
        /\ call[c].pc = "done" /\ call[c].result = "OK"
        /\ SentToShards(c) # {}

\* The config server's response to the create-database request of operation
\* c has reached createDatabase: it passed the assertions of lines 137-141,
\* or createDatabase ended on it.
ConfigResponseReturned(c) ==
    /\ HasEv(c, "sendCfg")
    /\ \/ HasEv(c, "invalDb")
       \/ /\ call[c].pc = "done"
          /\ call[c].reply # NoReply
          /\ LastEv(c).ev \in {"sendCfg", "unyield"}

\* C28: whenever the config server has returned a response to the
\* create-database request, createDatabase has invoked unyield exactly once,
\* right after the request and ahead of anything decided on the response's
\* write-concern status and command status: a createDatabase that ends with
\* the response's write-concern or command error has unyielded the session.
C28_UnyieldAheadOfResponseChecks ==
    \A c \in Callers :
        ConfigResponseReturned(c)
        => LET h == call[c].hist
               u == IndexOf(h, "unyield")
           IN /\ CountEv(h, "unyield") = 1
              /\ CountEv(h, "yield") = 1
              /\ IndexOf(h, "yield") < IndexOf(h, "sendCfg")
              /\ u = IndexOf(h, "sendCfg") + 1
              /\ (h[u].sv # "OK") => (call[c].pc = "done" /\ call[c].result = h[u].sv)
              /\ (call[c].pc = "done" /\ LastEv(c).ev = "unyield" /\ h[u].sv = "OK")
                    => call[c].result = (IF call[c].reply.wc # "OK" THEN call[c].reply.wc
                                         ELSE call[c].reply.cmd)

\* A createDatabase that ended on the write-concern error of the response,
\* after the unyield.
C28_Witness ==
    \E c \in Callers :
        /\ ConfigResponseReturned(c)
        /\ call[c].pc = "done"
        /\ LastEv(c).ev = "unyield" /\ LastEv(c).sv = "OK"
        /\ call[c].reply.wc # "OK"
        /\ call[c].result = call[c].reply.wc

\* C29: the shard identifier that createCollection passes to the catalog
\* cache invalidation is the shard its create command was sent to, on the
\* first-shard path and on the database-primary path.
C29_InvalidationNamesTargetShard ==
    \A c \in Callers :
        (IsCreateCollection(c) /\ HasEv(c, "invalColl"))
        => LET h == call[c].hist
               n == Len(h)
           IN /\ h[n].ev = "invalColl" /\ h[n - 1].ev = "sendShard"
              /\ h[n].shard = h[n - 1].shard

\* C30: in createLegacyUnshardedCollection a write-concern error of the
\* primary shard's response makes the call fail with that error, also when
\* the command status is NamespaceExists and was tolerated; NamespaceExists
\* is the only command error tolerated, any other one ends the call with it.
C30_LegacyWriteConcernErrorFatal ==
    \A c \in Callers :
        LegacyReplied(c)
        => LET r == call[c].reply
               tolerated == r.cmd \in {"OK", "NamespaceExists"}
           IN /\ (tolerated /\ r.wc # "OK") => call[c].result = r.wc
              /\ ~tolerated => call[c].result = r.cmd
              /\ (call[c].result = "OK") <=> (tolerated /\ r.wc = "OK")

\* The primary answered NamespaceExists together with a write-concern error.
C30_Witness ==
    \E c \in Callers :
        /\ LegacyReplied(c)
        /\ call[c].reply.cmd = "NamespaceExists"
        /\ call[c].reply.wc = "WriteConcernFailed"
        /\ call[c].result = "WriteConcernFailed"

\* The response to attempt j of the running command carried the code m.
AttemptCarried(j, m) == extractTenantMigrationError(shell.log[j], m) # "null"

\* C31: after a response with a TenantMigrationCommitted error the
\* connection's internal routing connection is the connection to the
\* recipient named in the state document (once line 512 is reached, the
\* recipient is in rerouted), and the next attempt of the command and every
\* later command on the connection goes to the recipient; after a
\* TenantMigrationAborted error the retry goes where the attempt went.
C31_ReroutedToRecipient ==
    /\ \A c \in Conns :
          shell.rerouted[c] # "none" =>
              getRoutingConnection(shell.internal, c) = connect(shell.rerouted[c])
    /\ \A j \in 1..(Len(shell.sent) - 1) :
          /\ AttemptCarried(j, "TenantMigrationCommitted") =>
                 shell.sent[j + 1].node = OtherNode(shell.sent[j].node)
          /\ (/\ AttemptCarried(j, "TenantMigrationAborted")
              /\ ~AttemptCarried(j, "TenantMigrationCommitted")) =>
                 shell.sent[j + 1].node = shell.sent[j].node

\* C35: whenever the reroute after a TenantMigrationCommitted error gets to
\* setRoutingConnection (line 512), the connection the command runs on has
\* an internal routing connection, so the assertion of lines 77-79 holds,
\* on the shell's initial connection and on any other one.
C35_SetRoutingConnectionAssertionHolds ==
    [][(/\ shell.pc = "reroute"
        /\ shell'.pc # "reroute"
        /\ shell.up = Nodes
        /\ getRoutingConnection(shell.internal, shell.conn) # "threw")
       => setRoutingConnectionAsserts(shell.internal, shell.conn)]_vars

\* C36: routing never chains: getRoutingConnection returns a connection
\* that, unless it is the shell's initial connection, has no internal
\* routing connection, and an internal routing connection other than the
\* initial connection has none of its own.
C36_RoutingNeverChains ==
    \A c \in Conns :
        LET rc == getRoutingConnection(shell.internal, c)
        IN /\ rc # "threw"
           /\ rc # "initialConn" => shell.internal[rc] = "null"
           /\ shell.internal[c] \notin {"null", "initialConn"} =>
                  shell.internal[shell.internal[c]] = "null"

\* The initial connection was rerouted twice and the third attempt of a
\* command went to the first donor again, on a connection of its own.
C36_Witness ==
    /\ shell.internal["initialConn"] = "rs0Conn"
    /\ shell.pc = "returned"
    /\ Len(shell.sent) = 3
    /\ shell.sent[3].node = "rs0"

\* The call runs a batched write that is not a retryable write.
NonRetryableBatch == shell.cmd \in BatchKinds /\ ~isRetryableWrite(shell)

\* Attempt j of the running call was followed by another attempt or, the
\* call standing between two attempts, will be.
Retried(j) ==
    /\ ~isTransientTransactionError(shell.log[j])
    /\ j < Len(shell.sent) \/ shell.pc \in {"attempt", "reroute", "record"}

\* The operations of the attempt that follows attempt j.
RetryOps(j) == IF j < Len(shell.sent) THEN shell.sent[j + 1].ops ELSE shell.ops

\* The operations of attempt j at the positions where the server's
\* outcome is one of kinds.
OpsWithOutcome(j, kinds) ==
    LET at == Positions(shell.log[j].outcome, kinds)
    IN [k \in 1..Len(at) |-> shell.sent[j].ops[at[k]]]

\* C32: for a batched insert, update or delete that is not a retryable
\* write, the retry after attempt j holds, in ordered mode, exactly the
\* operations from the first write error's index on, in unordered mode
\* exactly the operations whose write error is a tenant migration error,
\* and the whole command after a top-level migration error; these are the
\* operations that the migration error kept from being applied, and no
\* operation that was applied or that failed with another error is sent
\* again.
C32_RetryHoldsWhatMigrationStopped ==
    NonRetryableBatch =>
        \A j \in 1..Len(shell.sent) :
            /\ Retried(j) =>
                 LET resObj == shell.log[j]
                     ops == shell.sent[j].ops
                     migrated == SelectSeq(resObj.writeErrors,
                                           LAMBDA e : isTenantMigrationError(e.code))
                 IN /\ RetryOps(j) =
                          IF resObj.writeErrors = <<>> THEN ops
                          ELSE IF shell.ordered = "false"
                          THEN [k \in 1..Len(migrated) |-> ops[migrated[k].index + 1]]
                          ELSE SubSeq(ops, resObj.writeErrors[1].index + 1, Len(ops))
                    /\ RetryOps(j) = OpsWithOutcome(j, {"mig", "notRun"})
            /\ \A k \in (j + 1)..Len(shell.sent) :
                 Range(OpsWithOutcome(j, {"ok", "upsert", "zero", "err"}))
                     \cap Range(shell.sent[k].ops) = {}

\* An unordered batch of two whose first operation failed with DuplicateKey
\* and whose second one was stopped by a migration: the retry held the
\* second one alone.
C32_Witness ==
    /\ NonRetryableBatch
    /\ shell.ordered = "false"
    /\ Len(shell.sent) = 2
    /\ shell.log[1].outcome = <<"err", "mig">>
    /\ shell.sent[2].ops = <<1>>

\* C33: in the response returned after one or more retries of a batched
\* write that is not a retryable write, every entry of upserted and of
\* writeErrors carries the index its operation had in the original command.
C33_EntriesCarryOriginalIndex ==
    (NonRetryableBatch /\ shell.pc = "returned" /\ shell.numAttempts > 1) =>
        /\ \A i \in 1..Len(shell.result.upserted) :
              shell.result.upserted[i].index = shell.result.upserted[i].op
        /\ \A i \in 1..Len(shell.result.writeErrors) :
              shell.result.writeErrors[i].index = shell.result.writeErrors[i].op

RECURSIVE SumOf(_, _)
SumOf(responses, field) ==
    IF responses = <<>> THEN 0
    ELSE Head(responses)[field] + SumOf(Tail(responses), field)

\* C34: the n and nModified of the response returned for a write that is
\* not a retryable write and that was retried are the sums of n and of
\* nModified over all attempts, also when the last attempt reports 0.
C34_CountsAreSums ==
    (/\ NonRetryableBatch /\ shell.pc = "returned" /\ shell.numAttempts > 1
     /\ shell.result.code = "OK") =>
        /\ shell.result.n = SumOf(shell.log, "n")
        /\ shell.result.nModified = SumOf(shell.log, "nModified")
====
